---- MODULE Spec2Model ----
(***************************************************************************)
(* A model of the hi_telos beat orchestrator (crates/hi_telos): the        *)
(* scheduling loop of BeatOrchestrator::run, one Ingest+Drain cycle        *)
(* (run_beat, ingest_inbox, process_intent, run_with_retry), the in-memory *)
(* IntentQueue and the directory-based record store of storage/mod.rs.     *)
(*                                                                         *)
(* Record files are numbered 1..NumFiles in the order read_dir lists them. *)
(* A path is a pair <<directory, file>>; the file system is the set of     *)
(* paths that exist.  Alignment is counted in tenths (0.5 is 5).           *)
(***************************************************************************)
EXTENDS Integers, Sequences, FiniteSets, TLC

\* ------------------------------------------------------------------------
\* Bounds of the model
NumFiles == 2
MaxCmds == 2
MaxMinted == 4
NumDays == 2
MaxSnapshots == 3
NumSummaries == 1
MaxUpdates == 4

\* ------------------------------------------------------------------------
\* Program constants
Threshold == 5
STORAGE_RETRY_ATTEMPTS == 3
INTENT_REQUEUE_ATTEMPTS == 3

Files == 1..NumFiles
AlignVals == {Threshold - 1, Threshold, Threshold + 1}
None == <<>>

Inbox == "intent/inbox"
QueueDir == "intent/queue"
Deferred == "intent/inbox/deferred"
Failed == "intent/queue/failed"
History == "intent/history"
REQUIRED_DIRS == {Inbox, QueueDir, Deferred, Failed, History}

Paths == REQUIRED_DIRS \X Files

\* created_at of the header of record f: listing order and creation order
\* differ, and from three files on two records share a creation time.
CreatedAt(f) == (NumFiles + 1 - f) \div 2

\* The synthesized "summary => final answer" line of record f: records 1 and
\* 2 carry the same summary, every later pair likewise.
SummaryLine(f) == (f + 1) \div 2

VARIABLES
    fs,             \* the paths that exist on disk
    align,          \* telos_alignment in the header of each record file, 0 before it exists
    queue,          \* IntentQueue.items
    pc,             \* position of the orchestrator task
    cmds,           \* RequestBeat commands buffered in the mpsc channel
    sending,        \* submission handlers between persist_intent and request_beat
    shutdownCalled, \* request_shutdown has been called
    notified,       \* the Notified future of the current select! has been woken
    scan,           \* records of the current inbox scan not yet handled
    cur,            \* the intent popped by run_beat, None between intents
    attempts,       \* run_beat: failure count per intent id (0: no entry)
    journal,        \* journal blocks written in the current cycle, per record
    spIncr,         \* usage-index upserts written in the current cycle, per record
    scanned,        \* history: the records the inbox scan of the current cycle returned
    relocErr,       \* history: the file whose relocation failed in the current Ingest, 0 if none
    handed,         \* history: the ids handed to run_react in the current pass, in order
    reactOk,        \* history: a run_react call of the current pass returned Ok
    beat,           \* history: "none", or "clean"/"dirty": a call failed in the current cycle
    outcome,        \* history: how the process_intent that has just returned ended, None otherwise
    moveErr,        \* history: ids whose relocation to failed returned an error in the current cycle
    reply,          \* the response each submission has received, "none" before it
    hdr,            \* what the header of each record file holds: "full", "noid" or "malformed"
    minted,         \* the number of ids scan_intent_dir has drawn from Uuid::new_v4
    mem,            \* the memory store: L1 lines and the L2 document of each day
    probe,          \* history: the last direct call of archive_intent or run_with_retry
    sp,             \* sp/index.json and the update_sp_index calls made on it
    text,           \* the structured-text preview, its history directory and the clock
    backlog,        \* history: the backlog_size process_intent last passed to run_react
    calls,          \* history: invocations of each storage operation for the intent in hand
    lock            \* the guards alive on the RwLock of AppContext.intents

disk == <<fs, align>>
chan == <<cmds, sending, reply>>
cycle == <<scanned, relocErr, handed, reactOk, beat, outcome, moveErr, journal, spIncr>>
aux == <<hdr, minted, mem, probe, sp, text>>
obs == <<backlog, calls, lock>>
vars == <<disk, queue, pc, chan, shutdownCalled, notified, scan, cur, attempts, cycle, aux,
          obs>>

\* ------------------------------------------------------------------------
\* tasks/mod.rs: Intent and IntentQueue

Intent(f, al, path) ==
    [id |-> f, telos_alignment |-> al, created_at |-> CreatedAt(f), storage_path |-> path]

\* push_front written where push_back is meant
Push_ToFront(q, intent) == <<intent>> \o q

Push(q, intent) == Append(q, intent)

\* push_back written where push_front is meant
PushFront_ToBack(q, intent) == Append(q, intent)

PushFront(q, intent) == <<intent>> \o q

\* a pop that reports an empty queue one element early
PopNext_LeavesLast(q) == IF Len(q) <= 1 THEN [intent |-> None, rest |-> q]
                         ELSE [intent |-> Head(q), rest |-> Tail(q)]

\* pop_back written where pop_front is meant
PopNext_FromBack(q) == IF q = <<>> THEN [intent |-> None, rest |-> q]
                       ELSE [intent |-> q[Len(q)], rest |-> SubSeq(q, 1, Len(q) - 1)]

PopNext(q) == IF q = <<>> THEN [intent |-> None, rest |-> q]
              ELSE [intent |-> Head(q), rest |-> Tail(q)]

QueueIds(q) == {q[i].id : i \in 1..Len(q)}

\* a length that counts the intent in hand with those waiting
QueueLen_CountsCurrent(q) == Len(q) + 1

\* IntentQueue::len
QueueLen(q) == Len(q)

\* ------------------------------------------------------------------------
\* state.rs: the RwLock around the IntentQueue, as the guards that are alive

Unlocked == [readers |-> 0, writer |-> FALSE]

\* intents.read() returns at once only while no write guard is alive
CanRead(l) == ~l.writer

\* intents.write() returns at once only while no guard is alive
CanWrite(l) == l = Unlocked

Read(l) == [l EXCEPT !.readers = @ + 1]

Write(l) == [l EXCEPT !.writer = TRUE]

\* a read guard that outlives its block
DropRead_Kept(l) == l

\* the read guard goes out of scope
DropRead(l) == [l EXCEPT !.readers = @ - 1]

\* the write guard goes out of scope
DropWrite(l) == [l EXCEPT !.writer = FALSE]

\* ------------------------------------------------------------------------
\* storage/mod.rs: scanning

RECURSIVE Listing_WithSubdirs(_, _, _)
\* a listing that descends into the directory below (deferred, failed)
Listing_WithSubdirs(dir, f_s, f) ==
    IF f > NumFiles THEN <<>>
    ELSE (IF <<dir, f>> \in f_s \/ <<(IF dir = Inbox THEN Deferred ELSE Failed), f>> \in f_s
          THEN <<f>> ELSE <<>>) \o Listing_WithSubdirs(dir, f_s, f + 1)

RECURSIVE Listing(_, _, _)
\* read_dir: the regular files directly in dir, in listing order, from file f on
Listing(dir, f_s, f) ==
    IF f > NumFiles THEN <<>>
    ELSE (IF <<dir, f>> \in f_s THEN <<f>> ELSE <<>>) \o Listing(dir, f_s, f + 1)

RECURSIVE InsertByCreatedAt(_, _)
InsertByCreatedAt(r, s) ==
    IF s = <<>> THEN <<r>>
    ELSE IF r.intent.created_at < Head(s).intent.created_at THEN <<r>> \o s
    ELSE <<Head(s)>> \o InsertByCreatedAt(r, Tail(s))

\* the records in the order read_dir listed them
SortByCreatedAt_AsListed(s) == s

RECURSIVE SortByCreatedAt(_)
\* records.sort_by_key(|record| record.intent.created_at): a stable sort
SortByCreatedAt(s) ==
    IF s = <<>> THEN <<>>
    ELSE InsertByCreatedAt(s[Len(s)], SortByCreatedAt(SubSeq(s, 1, Len(s) - 1)))

\* What a record file's header can hold: every field (as persist_intent
\* writes it), every field but the id, or text that is not YAML
HeaderKinds == {"full", "noid", "malformed"}

\* parse_intent_front_matter: an error for text serde_yaml rejects, else the
\* front matter, whose id is None when the header has no id field
ParseIntentFrontMatter(kind) == [ok |-> kind # "malformed", has_id |-> kind = "full"]

\* front_matter.id.unwrap_or_else(Uuid::new_v4): the id of the header (the
\* number of the file), or the m-th id drawn from new_v4
IdOrNew(front_matter, f, m) == IF front_matter.has_id THEN f ELSE NumFiles + m

RECURSIVE ReadRecords(_, _, _, _, _)
\* The `for entry in fs::read_dir(dir)` loop of scan_intent_dir over the
\* listed files: parse_intent_front_matter(&content)? returns the error of
\* the first file that does not parse, and with it no record at all
ReadRecords(dir, files, al, h, m) ==
    IF files = <<>> THEN [ok |-> TRUE, records |-> <<>>, minted |-> m]
    ELSE LET f == Head(files)
             front_matter == ParseIntentFrontMatter(h[f])
             drawn == IF front_matter.has_id THEN m ELSE m + 1
             record == [path |-> <<dir, f>>,
                        intent |-> [Intent(f, al[f], <<dir, f>>)
                                       EXCEPT !.id = IdOrNew(front_matter, f, drawn)]]
         IN IF ~front_matter.ok THEN [ok |-> FALSE, records |-> <<>>, minted |-> m]
            ELSE LET rest == ReadRecords(dir, Tail(files), al, h, drawn)
                 IN [ok |-> rest.ok,
                     records |-> IF rest.ok THEN <<record>> \o rest.records ELSE <<>>,
                     minted |-> rest.minted]

ScanIntentDir(dir, f_s, al, h, m) ==
    LET r == ReadRecords(dir, Listing(dir, f_s, 1), al, h, m)
    IN [ok |-> r.ok, records |-> SortByCreatedAt(r.records), minted |-> r.minted]

\* a scan_inbox that joins the queue directory where the inbox is meant
ScanInbox_ScansQueue(f_s, al, h, m) == ScanIntentDir(QueueDir, f_s, al, h, m)

ScanInbox(f_s, al, h, m) == ScanIntentDir(Inbox, f_s, al, h, m)

ScanQueue(f_s, al, h, m) == ScanIntentDir(QueueDir, f_s, al, h, m)

\* ------------------------------------------------------------------------
\* storage/mod.rs: relocation.  Each operator yields the set of outcomes the
\* call can have: fs::rename fails when the source is missing and may fail
\* for any other I/O reason, leaving the disk as it was.

\* a copy where a move is meant: the source stays
Rename_Copies(src, dst, f_s) ==
    {[ok |-> FALSE, fs |-> f_s, path |-> None]}
    \cup (IF src \in f_s THEN {[ok |-> TRUE, fs |-> f_s \cup {dst}, path |-> dst]} ELSE {})

Rename(src, dst, f_s) ==
    {[ok |-> FALSE, fs |-> f_s, path |-> None]}
    \cup (IF src \in f_s
          THEN {[ok |-> TRUE, fs |-> (f_s \ {src}) \cup {dst}, path |-> dst]}
          ELSE {})

\* a promote_to_queue that returns the path it moved the file from
PromoteToQueue_ReturnsSource(path, f_s) ==
    {[o EXCEPT !.path = IF o.ok THEN path ELSE None] :
        o \in Rename(path, <<QueueDir, path[2]>>, f_s)}

PromoteToQueue(path, f_s) == Rename(path, <<QueueDir, path[2]>>, f_s)

DeferIntent(path, f_s) == Rename(path, <<Deferred, path[2]>>, f_s)

\* the history directory joined where the failed directory is meant
QuarantineFailedIntent_ToHistory(path, f_s) == Rename(path, <<History, path[2]>>, f_s)

QuarantineFailedIntent(path, f_s) == Rename(path, <<Failed, path[2]>>, f_s)

\* archive_intent without the `if !path.exists()` early return
ArchiveIntent_NoExistsCheck(intent, f_s) ==
    IF intent.storage_path = None THEN {[ok |-> TRUE, fs |-> f_s, path |-> None]}
    ELSE Rename(intent.storage_path, <<History, intent.storage_path[2]>>, f_s)

ArchiveIntent(intent, f_s) ==
    IF intent.storage_path = None THEN {[ok |-> TRUE, fs |-> f_s, path |-> None]}
    ELSE IF intent.storage_path \notin f_s THEN {[ok |-> TRUE, fs |-> f_s, path |-> None]}
    ELSE Rename(intent.storage_path, <<History, intent.storage_path[2]>>, f_s)

\* ------------------------------------------------------------------------
\* storage/mod.rs: the usage index.  A text is a sequence of characters; an
\* index holds the two lists of sp/index.json, the clock, and as history the
\* number of update_sp_index calls made, the summary of the last call that
\* returned Ok (None after an error) and how often each summary was written.

\* The " => " that update_sp_index puts between summary and final answer
Arrow == 0

\* format!("{} => {}", intent.summary, outcome.final_answer)
SynthSummary(intent_summary, final_answer) == intent_summary \o <<Arrow>> \o final_answer

\* The two lists are cut to this many entries
SP_LIMIT == 10

SpEntry(summary, count, last_seen) ==
    [summary |-> summary, count |-> count, last_seen |-> last_seen]

\* a match on the intent's summary alone, whatever the final answer
SameSummary_IgnoresAnswer(a, b) == a[1] = b[1]

\* entry.summary == summary
SameSummary(a, b) == a = b

\* count descending, then the older entry first
TopUsedBefore_OldestFirst(a, b) ==
    a.count > b.count \/ (a.count = b.count /\ a.last_seen < b.last_seen)

\* b.count.cmp(&a.count).then_with(|| b.last_seen.cmp(&a.last_seen)) is Less
TopUsedBefore(a, b) ==
    a.count > b.count \/ (a.count = b.count /\ a.last_seen > b.last_seen)

\* b.last_seen.cmp(&a.last_seen) is Less
MostRecentBefore(a, b) == a.last_seen > b.last_seen

RECURSIVE InsertEntry(_, _, _)
InsertEntry(e, s, byCount) ==
    IF s = <<>> THEN <<e>>
    ELSE IF (IF byCount THEN TopUsedBefore(e, Head(s)) ELSE MostRecentBefore(e, Head(s)))
         THEN <<e>> \o s
    ELSE <<Head(s)>> \o InsertEntry(e, Tail(s), byCount)

RECURSIVE SortEntries(_, _)
\* entries.sort_by(..): a stable sort, by the order of top_used or of most_recent
SortEntries(s, byCount) ==
    IF s = <<>> THEN <<>>
    ELSE InsertEntry(s[Len(s)], SortEntries(SubSeq(s, 1, Len(s) - 1), byCount), byCount)

\* a cut that keeps one entry more
Truncate_KeepsOneMore(entries) ==
    IF Len(entries) > SP_LIMIT + 1 THEN SubSeq(entries, 1, SP_LIMIT + 1) ELSE entries

\* if entries.len() > 10 { entries.truncate(10) }
Truncate(entries) ==
    IF Len(entries) > SP_LIMIT THEN SubSeq(entries, 1, SP_LIMIT) ELSE entries

UpsertTopUsed(entries, summary, now) ==
    LET found == {i \in 1..Len(entries) : SameSummary(entries[i].summary, summary)}
        first == CHOOSE i \in found : \A j \in found : i <= j
        upserted == IF found # {}
                    THEN [entries EXCEPT ![first].count = @ + 1, ![first].last_seen = now]
                    ELSE Append(entries, SpEntry(summary, 1, now))
    IN Truncate(SortEntries(upserted, TRUE))

UpsertMostRecent(entries, summary, now) ==
    LET retained == SelectSeq(entries, LAMBDA entry : ~SameSummary(entry.summary, summary))
    IN Truncate(SortEntries(Append(retained, SpEntry(summary, 1, now)), FALSE))

\* The intent summaries and final answers update_sp_index is called with: a
\* summary an index of SP_LIMIT entries already holds and two it does not;
\* two final answers that differ in one character
UpdateSummaries == {<<1>>, <<SP_LIMIT + 1>>, <<SP_LIMIT + 2>>}

FinalAnswers == {<<1>>, <<1, 1>>}

\* The summaries of SP_LIMIT earlier intents, all with the first final answer
PriorSummaries == [i \in 1..SP_LIMIT |-> SynthSummary(<<i>>, <<1>>)]

AllSummaries ==
    {PriorSummaries[i] : i \in 1..SP_LIMIT}
        \cup {SynthSummary(s, a) : s \in UpdateSummaries, a \in FinalAnswers}

\* No sp/index.json: PersistedSpIndex::default()
NoIndex ==
    [top_used |-> <<>>, most_recent |-> <<>>, now |-> 0, n |-> 0, last |-> None,
     seen |-> [s \in AllSummaries |-> 0]]

\* update_sp_index returning Ok at time `now`: both lists upserted, the file rewritten
Updated(index, summary, now) ==
    [index EXCEPT !.top_used = UpsertTopUsed(@, summary, now),
                  !.most_recent = UpsertMostRecent(@, summary, now),
                  !.now = now,
                  !.n = @ + 1,
                  !.last = summary,
                  !.seen[summary] = @ + 1]

RECURSIVE Replay(_, _)
\* The index after update_sp_index has returned Ok for each of the summaries in turn
Replay(index, summaries) ==
    IF summaries = <<>> THEN index
    ELSE Replay(Updated(index, Head(summaries), index.now + 1), Tail(summaries))

\* ------------------------------------------------------------------------
\* storage/structured_text.rs: the structured-text preview and its history

STRUCTURED_TEXT_HISTORY_LIMIT == 20

\* clock ticks in a microsecond, the resolution of a history file name
TicksPerMicro == 2

\* the snapshots saved in a run
MaxSaves == 3

\* the payloads a snapshot can hold
NumContents == 2

Contents == 1..NumContents

\* now.format(HISTORY_TIMESTAMP_FORMAT): the time cut to microseconds,
\* followed by the letter Z
HistoryId(now) == <<now \div TicksPerMicro, "Z">>

\* parse_history_id: an error for an id without the suffix Z, else its time
ParseHistoryId(id) ==
    IF Len(id) = 2 /\ id[2] = "Z" THEN [ok |-> TRUE, ts |-> id[1]]
    ELSE [ok |-> FALSE, ts |-> 0]

\* the time prune_structured_text_history reads from the file stem of an entry
SavedAt(e) == ParseHistoryId(e.id).ts

\* skip(limit) over the entries sorted by saved_at ascending
Newest_Oldest(entries, n) ==
    {e \in entries : Cardinality({o \in entries : SavedAt(o) < SavedAt(e)}) < n}

\* the first n of the entries sorted by saved_at descending
Newest(entries, n) ==
    {e \in entries : Cardinality({o \in entries : SavedAt(o) > SavedAt(e)}) < n}

\* prune_structured_text_history: index the files whose stem parses, sort
\* them newest first, and remove those after the first `limit` in that
\* order; reading the directory may fail, and the first remove_file that
\* fails ends the loop with the error
PruneStructuredTextHistory(history, limit) ==
    LET indexed == {e \in history : ParseHistoryId(e.id).ok}
        excess == indexed \ Newest(indexed, limit)
    IN {[ok |-> FALSE, history |-> history]}
       \cup (IF Cardinality(indexed) <= limit THEN {[ok |-> TRUE, history |-> history]}
             ELSE {[ok |-> j = Cardinality(excess), history |-> history \ Newest(excess, j)] :
                      j \in 0..Cardinality(excess)})

\* append_structured_text_history: write <timestamp>.json (a file of that
\* name is replaced), then prune; creating the directory or writing may fail
AppendStructuredTextHistory(history, content, now) ==
    LET entry == [id |-> HistoryId(now), content |-> content]
        written == {e \in history : e.id # entry.id} \cup {entry}
    IN {[ok |-> FALSE, history |-> history]}
       \cup PruneStructuredTextHistory(written, STRUCTURED_TEXT_HISTORY_LIMIT)

\* save_structured_text_preview: write the preview, then append to the history
SaveStructuredTextPreview(store, content, now) ==
    {[ok |-> FALSE, store |-> store]}
    \cup {[ok |-> a.ok, store |-> [store EXCEPT !.preview = {content}, !.history = a.history]] :
             a \in AppendStructuredTextHistory(store.history, content, now)}

\* load_structured_text_history_entry: an error for an id that does not parse
\* or a read that fails, else the entry of that id if there is one
LoadStructuredTextHistoryEntry(history, id) ==
    IF ~ParseHistoryId(id).ok THEN {[ok |-> FALSE, found |-> {}]}
    ELSE {[ok |-> FALSE, found |-> {}],
          [ok |-> TRUE, found |-> {e \in history : e.id = id}]}

\* restore_structured_text_preview_from_history: Ok(false) when there is no
\* entry of that id, else a save of the entry's content
RestoreStructuredTextPreviewFromHistory(store, id, now) ==
    UNION {IF ~l.ok THEN {[ok |-> FALSE, restored |-> FALSE, store |-> store]}
           ELSE IF l.found = {} THEN {[ok |-> TRUE, restored |-> FALSE, store |-> store]}
           ELSE UNION {{[ok |-> s.ok, restored |-> s.ok, store |-> s.store] :
                           s \in SaveStructuredTextPreview(store, e.content, now)} :
                          e \in l.found} :
              l \in LoadStructuredTextHistoryEntry(store.history, id)}

\* no preview, an empty history directory
NoText == [preview |-> {}, history |-> {}, now |-> 0, n |-> 0, last |-> "none"]

\* the state k saves, one in each microsecond, leave behind
SavedTimes(k) ==
    [preview |-> IF k = 0 THEN {} ELSE {1},
     history |-> {[id |-> HistoryId(TicksPerMicro * t), content |-> 1] : t \in 1..k},
     now |-> TicksPerMicro * k, n |-> 0, last |-> "none"]

\* ------------------------------------------------------------------------
\* Initial state: a data directory in which the queue directory may hold
\* records promoted by an earlier run; nothing is in memory yet.

\* record.intent.telos_alignment >= threshold
Admit(alignment) == alignment >= Threshold

\* The calendar days of the memory store
Days == 1..NumDays

\* No memory file exists
NoMemory ==
    [l1 |-> [d \in Days |-> <<>>], l2 |-> [d \in Days |-> None], ids |-> 0, now |-> 0,
     today |-> 1]

NoCycle ==
    /\ scanned = <<>>
    /\ relocErr = 0
    /\ handed = <<>>
    /\ reactOk = FALSE
    /\ beat = "none"
    /\ outcome = None
    /\ moveErr = {}
    /\ journal = [f \in Files |-> 0]
    /\ spIncr = [f \in Files |-> 0]

Init ==
    /\ align \in [Files -> {0} \cup {a \in AlignVals : Admit(a)}]
    /\ fs = {<<QueueDir, f>> : f \in {g \in Files : align[g] # 0}}
    /\ queue = <<>>
    /\ pc = "boot"
    /\ cmds = 0
    /\ sending = {}
    /\ shutdownCalled = FALSE
    /\ notified = FALSE
    /\ scan = <<>>
    /\ cur = None
    /\ attempts = [f \in Files |-> 0]
    /\ NoCycle
    /\ reply = [f \in Files |-> "none"]
    /\ hdr = [f \in Files |-> "full"]
    /\ minted = 0
    /\ mem = NoMemory
    /\ probe = None
    /\ sp = NoIndex
    /\ text = NoText
    /\ backlog = 0
    /\ calls = None
    /\ lock = Unlocked

\* ------------------------------------------------------------------------
\* Submission (server/mod.rs: create_intent, the telegram webhook) and
\* shutdown (state.rs)

\* a handler that also pushes the new record onto the queue
PersistIntent_Enqueues(f, telos_alignment) ==
    /\ \A d \in REQUIRED_DIRS : <<d, f>> \notin fs
    /\ f \notin sending
    /\ fs' = fs \cup {<<Inbox, f>>}
    /\ align' = [align EXCEPT ![f] = telos_alignment]
    /\ sending' = sending \cup {f}
    /\ queue' = Push(queue, Intent(f, telos_alignment, <<Inbox, f>>))
    /\ UNCHANGED <<pc, cmds, reply, shutdownCalled, notified, scan, cur, attempts, cycle, aux,
                   obs>>

\* storage::persist_intent: a new file in the inbox
PersistIntent(f, telos_alignment) ==
    /\ \A d \in REQUIRED_DIRS : <<d, f>> \notin fs
    /\ f \notin sending
    /\ fs' = fs \cup {<<Inbox, f>>}
    /\ align' = [align EXCEPT ![f] = telos_alignment]
    /\ sending' = sending \cup {f}
    /\ UNCHANGED <<queue, pc, cmds, reply, shutdownCalled, notified, scan, cur, attempts,
                   cycle, aux, obs>>

\* a response that claims a beat whatever request_beat returned
BeatScheduled_Always(sent) == "accepted, beat scheduled"

\* create_intent after persist_intent returned Ok: 202 Accepted with
\* beat_scheduled telling whether request_beat returned Ok
BeatScheduled(sent) == IF sent THEN "accepted, beat scheduled" ELSE "accepted, no beat"

\* OrchestratorHandle::request_beat: the send waits while the channel is full
\* and returns an error once the receiver is gone
RequestBeat(f) ==
    /\ f \in sending
    /\ \/ /\ pc # "done"
          /\ cmds < MaxCmds
          /\ cmds' = cmds + 1
          /\ reply' = [reply EXCEPT ![f] = BeatScheduled(TRUE)]
       \/ /\ pc = "done"
          /\ cmds' = cmds
          /\ reply' = [reply EXCEPT ![f] = BeatScheduled(FALSE)]
    /\ sending' = sending \ {f}
    /\ UNCHANGED <<disk, queue, pc, shutdownCalled, notified, scan, cur, attempts, cycle,
                   aux, obs>>

\* Notify::notify_waiters wakes the Notified futures that exist now and
\* stores no permit: the orchestrator has one only while it is in select!
NotifyWaiters(at) == at = "select"

RequestShutdown ==
    /\ ~shutdownCalled
    /\ shutdownCalled' = TRUE
    /\ notified' = NotifyWaiters(pc)
    /\ UNCHANGED <<disk, queue, pc, chan, scan, cur, attempts, cycle, aux, obs>>

\* ------------------------------------------------------------------------
\* BeatOrchestrator::run

\* load_existing_queue: the queue directory is scanned once; a failed scan is
\* logged and leaves the queue empty.  The records are pushed under one write
\* guard, dropped as the function returns.
LoadExistingQueue ==
    /\ pc = "boot"
    /\ CanWrite(lock)
    /\ lock' = DropWrite(Write(lock))
    /\ \/ LET r == ScanQueue(fs, align, hdr, minted)
              existing == r.records
              loaded == [i \in 1..Len(existing) |->
                            [existing[i].intent EXCEPT !.storage_path = existing[i].path]]
          IN /\ r.minted <= MaxMinted
             /\ queue' = IF r.ok THEN queue \o loaded ELSE queue
             /\ minted' = r.minted
       \/ /\ queue' = queue
          /\ minted' = minted
    /\ pc' = "select"
    /\ notified' = FALSE
    /\ UNCHANGED <<disk, chan, shutdownCalled, scan, cur, attempts, cycle, hdr, mem, probe,
                   sp, backlog, calls, text>>

\* A branch of select! that starts run_beat: the other branches' futures,
\* the Notified future among them, are dropped
StartBeat ==
    /\ pc' = "ingest_scan"
    /\ notified' = FALSE
    /\ beat' = "clean"
    /\ UNCHANGED <<disk, queue, sending, reply, shutdownCalled, scan, cur, attempts, scanned,
                   relocErr, handed, reactOk, outcome, moveErr, journal, spIncr, aux, obs>>

\* _ = ticker.tick()
Tick ==
    /\ pc = "select"
    /\ cmds' = cmds
    /\ StartBeat

\* a receive that takes every buffered command for one cycle
RecvCmd_Coalesces ==
    /\ pc = "select"
    /\ cmds > 0
    /\ cmds' = 0
    /\ StartBeat

\* Some(cmd) = self.cmd_rx.recv()
RecvCmd ==
    /\ pc = "select"
    /\ cmds > 0
    /\ cmds' = cmds - 1
    /\ StartBeat

\* _ = shutdown.notified() => break
BreakLoop ==
    /\ pc = "select"
    /\ notified
    /\ pc' = "done"
    /\ UNCHANGED <<disk, queue, chan, shutdownCalled, notified, scan, cur, attempts, cycle,
                   aux, obs>>

\* ------------------------------------------------------------------------
\* BeatOrchestrator::ingest_inbox

\* storage::scan_inbox; its error ends ingest_inbox with nothing relocated
IngestScan ==
    /\ pc = "ingest_scan"
    /\ \/ LET r == ScanInbox(fs, align, hdr, minted)
          IN /\ r.minted <= MaxMinted
             /\ scan' = r.records
             /\ scanned' = scan'
             /\ beat' = IF r.ok THEN beat ELSE "dirty"
             /\ minted' = r.minted
       \/ /\ scan' = <<>>
          /\ scanned' = <<>>
          /\ beat' = "dirty"
          /\ minted' = minted
    /\ pc' = "ingest"
    /\ UNCHANGED <<disk, queue, chan, shutdownCalled, notified, cur, attempts, relocErr,
                   handed, reactOk, outcome, moveErr, journal, spIncr, hdr, mem, probe,
                   sp, obs, text>>

\* One iteration of `for record in new_intents`: the relocation's error is
\* returned with `?`, which ends the loop with the later records unhandled.
\* The write guard of the push is dropped at the end of its statement.
IngestRecord ==
    /\ pc = "ingest"
    /\ scan # <<>>
    /\ CanWrite(lock)
    /\ lock' = DropWrite(Write(lock))
    /\ LET record == Head(scan)
           admitted == Admit(record.intent.telos_alignment)
           outcomes == IF admitted THEN PromoteToQueue(record.path, fs)
                       ELSE DeferIntent(record.path, fs)
       IN \E o \in outcomes :
            /\ fs' = o.fs
            /\ IF o.ok
               THEN /\ scan' = Tail(scan)
                    /\ queue' = IF admitted
                                THEN Push(queue, [record.intent EXCEPT !.storage_path = o.path])
                                ELSE queue
                    /\ UNCHANGED <<relocErr, beat>>
               ELSE /\ scan' = <<>>
                    /\ relocErr' = record.intent.id
                    /\ beat' = "dirty"
                    /\ queue' = queue
    /\ UNCHANGED <<align, pc, chan, shutdownCalled, notified, cur, attempts, scanned, handed,
                   reactOk, outcome, moveErr, journal, spIncr, aux, backlog, calls>>

\* a run_beat that returns when ingest_inbox has returned an error
IngestDone_AbortsOnError ==
    /\ pc = "ingest"
    /\ scan = <<>>
    /\ attempts' = [f \in Files |-> 0]
    /\ pc' = IF beat = "dirty" THEN "select" ELSE "pop"
    /\ UNCHANGED <<disk, queue, chan, shutdownCalled, notified, scan, cur, cycle, aux, obs>>

\* ingest_inbox has returned; run_beat creates the attempts map
IngestDone ==
    /\ pc = "ingest"
    /\ scan = <<>>
    /\ attempts' = [f \in Files |-> 0]
    /\ pc' = "pop"
    /\ UNCHANGED <<disk, queue, chan, shutdownCalled, notified, scan, cur, cycle, aux, obs>>

\* ------------------------------------------------------------------------
\* BeatOrchestrator::run_beat, the drain loop

\* The stages whose storage operation process_intent runs in run_with_retry
RetryStages == {"llm_logs", "journal", "sp_index", "archive"}

\* No storage operation has been invoked
NoCalls == [stage \in RetryStages |-> 0]

\* The count of invocations starts again (None: it is not recorded)
Forget(c) == IF c = None THEN None ELSE NoCalls

\* The storage operation of `stage` has been invoked n times more
Invoked(c, stage, n) == IF c = None THEN None ELSE [c EXCEPT ![stage] = @ + n]

\* queue.pop_next() in its block, under a write guard: the end of the pass and
\* the return to select! with a new Notified future, or an intent, with which
\* process_intent reads the queue's length in a block of its own, under a
\* read guard, and calls run_react, whose return it awaits
Pop ==
    /\ pc = "pop"
    /\ CanWrite(lock)
    /\ LET r == PopNext(queue)
           popped == DropWrite(Write(lock))
       IN IF r.intent = None
          THEN /\ pc' = "select"
               /\ notified' = FALSE
               /\ scanned' = <<>>
               /\ relocErr' = 0
               /\ handed' = <<>>
               /\ reactOk' = FALSE
               /\ beat' = "none"
               /\ outcome' = None
               /\ moveErr' = {}
               /\ journal' = [f \in Files |-> 0]
               /\ spIncr' = [f \in Files |-> 0]
               /\ lock' = popped
               /\ calls' = Forget(calls)
               /\ UNCHANGED <<queue, cur, backlog>>
          ELSE /\ pc' = "agent"
               /\ cur' = r.intent
               /\ queue' = r.rest
               /\ outcome' = None
               /\ CanRead(popped)
               /\ backlog' = QueueLen(r.rest)
               /\ lock' = DropRead(Read(popped))
               /\ calls' = IF outcome # None /\ outcome.kind = "requeued"
                            THEN calls ELSE Forget(calls)
               /\ UNCHANGED <<notified, scanned, relocErr, handed, reactOk, beat, moveErr,
                              journal, spIncr>>
    /\ UNCHANGED <<disk, chan, shutdownCalled, scan, attempts, aux>>

\* process_intent: agent.run_react(..).await? returns
RunReact ==
    /\ pc = "agent"
    /\ \E ok \in BOOLEAN :
         /\ handed' = Append(handed, cur.id)
         /\ reactOk' = (reactOk \/ ok)
         /\ pc' = IF ok THEN "llm_logs" ELSE "on_err"
         /\ beat' = IF ok THEN beat ELSE "dirty"
    /\ UNCHANGED <<disk, queue, chan, shutdownCalled, notified, scan, cur, attempts, scanned,
                   relocErr, outcome, moveErr, journal, spIncr, aux, obs>>

\* one attempt more than STORAGE_RETRY_ATTEMPTS
RetryAgain_OneMore(rem) == rem > 0

\* run_with_retry after a failed invocation: retry while remaining > 1
RetryAgain(rem) == rem > 1

RECURSIVE RetryLoop(_, _, _)
\* The loop of run_with_retry; results[i] tells whether the i-th invocation of
\* the operation returns Ok
\* the result names the invocation whose error is returned (0 on Ok) and
\* counts the sleeps
RetryLoop(results, i, rem) ==
    IF results[i] THEN [ok |-> TRUE, invocations |-> i, err |-> 0, sleeps |-> 0]
    ELSE IF RetryAgain(rem)
         THEN [RetryLoop(results, i + 1, rem - 1) EXCEPT !.sleeps = @ + 1]
    ELSE [ok |-> FALSE, invocations |-> i, err |-> i, sleeps |-> 0]

RunWithRetry(results) == RetryLoop(results, 1, STORAGE_RETRY_ATTEMPTS)

\* What the successive invocations of one operation may return
Results == [1..STORAGE_RETRY_ATTEMPTS -> BOOLEAN]

\* process_intent with the usage index written before the journal
NextStage_IndexBeforeJournal(stage) ==
    CASE stage = "llm_logs" -> "sp_index"
      [] stage = "sp_index" -> "journal"
      [] stage = "journal" -> "archive"
      [] stage = "archive" -> "pop"

\* process_intent without its journal stage
NextStage_SkipsJournal(stage) ==
    CASE stage = "llm_logs" -> "sp_index"
      [] stage = "journal" -> "sp_index"
      [] stage = "sp_index" -> "archive"
      [] stage = "archive" -> "pop"

\* The stages of process_intent in their order
NextStage(stage) ==
    CASE stage = "llm_logs" -> "journal"
      [] stage = "journal" -> "sp_index"
      [] stage = "sp_index" -> "archive"
      [] stage = "archive" -> "pop"

\* persistence steps that write nothing for an intent they have already
\* written for in this pass
Stage_WritesOncePerIntent ==
    /\ pc \in {"llm_logs", "journal", "sp_index"}
    /\ \E results \in Results :
         LET r == RunWithRetry(results)
         IN /\ pc' = IF r.ok THEN NextStage(pc) ELSE "on_err"
            /\ journal' = IF r.ok /\ pc = "journal" /\ journal[cur.id] = 0
                          THEN [journal EXCEPT ![cur.id] = @ + 1] ELSE journal
            /\ spIncr' = IF r.ok /\ pc = "sp_index" /\ spIncr[cur.id] = 0
                         THEN [spIncr EXCEPT ![cur.id] = @ + 1] ELSE spIncr
            /\ beat' = IF r.ok /\ r.invocations = 1 THEN beat ELSE "dirty"
            /\ calls' = Invoked(calls, pc, r.invocations)
    /\ UNCHANGED <<disk, queue, chan, shutdownCalled, notified, scan, cur, attempts, scanned,
                   relocErr, handed, reactOk, outcome, moveErr, aux, backlog, lock>>

\* a storage step whose retries raise the intent's failure count
Stage_RetriesCount ==
    /\ pc \in {"llm_logs", "journal", "sp_index"}
    /\ \E results \in Results :
         LET r == RunWithRetry(results)
         IN /\ pc' = IF r.ok THEN NextStage(pc) ELSE "on_err"
            /\ journal' = IF r.ok /\ pc = "journal"
                          THEN [journal EXCEPT ![cur.id] = @ + 1] ELSE journal
            /\ spIncr' = IF r.ok /\ pc = "sp_index"
                         THEN [spIncr EXCEPT ![cur.id] = @ + 1] ELSE spIncr
            /\ beat' = IF r.ok /\ r.invocations = 1 THEN beat ELSE "dirty"
            /\ calls' = Invoked(calls, pc, r.invocations)
            /\ attempts' = IF r.invocations > 1
                           THEN [attempts EXCEPT ![cur.id] = @ + 1] ELSE attempts
    /\ UNCHANGED <<disk, queue, chan, shutdownCalled, notified, scan, cur, scanned,
                   relocErr, handed, reactOk, outcome, moveErr, aux, backlog, lock>>

\* One run_with_retry(..).await? around storage::append_llm_logs,
\* append_journal_entry or update_sp_index
Stage ==
    /\ pc \in {"llm_logs", "journal", "sp_index"}
    /\ \E results \in Results :
         LET r == RunWithRetry(results)
         IN /\ pc' = IF r.ok THEN NextStage(pc) ELSE "on_err"
            /\ journal' = IF r.ok /\ pc = "journal"
                          THEN [journal EXCEPT ![cur.id] = @ + 1] ELSE journal
            /\ spIncr' = IF r.ok /\ pc = "sp_index"
                         THEN [spIncr EXCEPT ![cur.id] = @ + 1] ELSE spIncr
            /\ beat' = IF r.ok /\ r.invocations = 1 THEN beat ELSE "dirty"
            /\ calls' = Invoked(calls, pc, r.invocations)
    /\ UNCHANGED <<disk, queue, chan, shutdownCalled, notified, scan, cur, attempts, scanned,
                   relocErr, handed, reactOk, outcome, moveErr, aux, backlog, lock>>

\* an Ok arm that leaves the intent's failure count in the map
Archive_KeepsCount ==
    /\ pc = "archive"
    /\ \E results \in Results :
         LET outcomes == ArchiveIntent(cur, fs)
             r == RunWithRetry(results)
         IN /\ \A i \in 1..r.invocations : \E o \in outcomes : o.ok = results[i]
            /\ fs' = IF r.ok THEN (CHOOSE o \in outcomes : o.ok).fs ELSE fs
            /\ pc' = IF r.ok THEN NextStage(pc) ELSE "on_err"
            /\ attempts' = attempts
            /\ cur' = IF r.ok THEN None ELSE cur
            /\ outcome' = IF r.ok THEN [id |-> cur.id, kind |-> "done"] ELSE outcome
            /\ beat' = IF r.ok /\ r.invocations = 1 THEN beat ELSE "dirty"
            /\ calls' = Invoked(calls, pc, r.invocations)
    /\ UNCHANGED <<align, queue, chan, shutdownCalled, notified, scan, scanned, relocErr,
                   handed, reactOk, moveErr, journal, spIncr, aux, backlog, lock>>

\* run_with_retry(..).await? around storage::archive_intent; on Ok
\* process_intent returns Ok and run_beat removes the intent's failure count
Archive ==
    /\ pc = "archive"
    /\ \E results \in Results :
         LET outcomes == ArchiveIntent(cur, fs)
             r == RunWithRetry(results)
         IN /\ \A i \in 1..r.invocations : \E o \in outcomes : o.ok = results[i]
            /\ fs' = IF r.ok THEN (CHOOSE o \in outcomes : o.ok).fs ELSE fs
            /\ pc' = IF r.ok THEN NextStage(pc) ELSE "on_err"
            /\ attempts' = IF r.ok THEN [attempts EXCEPT ![cur.id] = 0] ELSE attempts
            /\ cur' = IF r.ok THEN None ELSE cur
            /\ outcome' = IF r.ok THEN [id |-> cur.id, kind |-> "done"] ELSE outcome
            /\ beat' = IF r.ok /\ r.invocations = 1 THEN beat ELSE "dirty"
            /\ calls' = Invoked(calls, pc, r.invocations)
    /\ UNCHANGED <<align, queue, chan, shutdownCalled, notified, scan, scanned, relocErr,
                   handed, reactOk, moveErr, journal, spIncr, aux, backlog, lock>>

\* `>` written where `>=` is meant
MaxedOut_OffByOne(n) == n > INTENT_REQUEUE_ATTEMPTS

\* if *entry >= INTENT_REQUEUE_ATTEMPTS
MaxedOut(n) == n >= INTENT_REQUEUE_ATTEMPTS

\* an Err arm that leaves the drain loop when it has dropped an intent
HandleFailure_DropEndsPass ==
    /\ pc = "on_err"
    /\ CanWrite(lock)
    /\ LET n == attempts[cur.id] + 1
       IN IF MaxedOut(n)
          THEN /\ \E o \in (IF cur.storage_path # None
                            THEN QuarantineFailedIntent(cur.storage_path, fs)
                            ELSE {[ok |-> TRUE, fs |-> fs, path |-> None]}) :
                    /\ fs' = o.fs
                    /\ moveErr' = IF o.ok THEN moveErr ELSE moveErr \cup {cur.id}
               /\ attempts' = [attempts EXCEPT ![cur.id] = 0]
               /\ outcome' = [id |-> cur.id, kind |-> "dropped"]
               /\ queue' = queue
               /\ lock' = lock
               /\ pc' = "select"
          ELSE /\ attempts' = [attempts EXCEPT ![cur.id] = n]
               /\ queue' = PushFront(queue, cur)
               /\ outcome' = [id |-> cur.id, kind |-> "requeued"]
               /\ lock' = DropWrite(Write(lock))
               /\ pc' = "pop"
               /\ UNCHANGED <<fs, moveErr>>
    /\ cur' = None
    /\ UNCHANGED <<align, chan, shutdownCalled, notified, scan, scanned, relocErr, handed,
                   reactOk, beat, journal, spIncr, aux, backlog, calls>>

\* an Err arm that keeps the intent for another try when the move to the
\* failed directory returned an error
HandleFailure_RequeuesOnMoveError ==
    /\ pc = "on_err"
    /\ CanWrite(lock)
    /\ LET n == attempts[cur.id] + 1
       IN IF MaxedOut(n)
          THEN \E o \in (IF cur.storage_path # None
                         THEN QuarantineFailedIntent(cur.storage_path, fs)
                         ELSE {[ok |-> TRUE, fs |-> fs, path |-> None]}) :
                    /\ fs' = o.fs
                    /\ moveErr' = IF o.ok THEN moveErr ELSE moveErr \cup {cur.id}
                    /\ attempts' = [attempts EXCEPT ![cur.id] = IF o.ok THEN 0 ELSE n]
                    /\ outcome' = [id |-> cur.id, kind |-> "dropped"]
                    /\ queue' = IF o.ok THEN queue ELSE PushFront(queue, cur)
                    /\ lock' = lock
          ELSE /\ attempts' = [attempts EXCEPT ![cur.id] = n]
               /\ queue' = PushFront(queue, cur)
               /\ outcome' = [id |-> cur.id, kind |-> "requeued"]
               /\ lock' = DropWrite(Write(lock))
               /\ UNCHANGED <<fs, moveErr>>
    /\ cur' = None
    /\ pc' = "pop"
    /\ UNCHANGED <<align, chan, shutdownCalled, notified, scan, scanned, relocErr, handed,
                   reactOk, beat, journal, spIncr, aux, backlog, calls>>

\* The Err arm of run_beat: count the failure, then quarantine the file and
\* drop the intent, or push it to the front under a write guard that is
\* dropped at the end of the statement
HandleFailure ==
    /\ pc = "on_err"
    /\ CanWrite(lock)
    /\ LET n == attempts[cur.id] + 1
       IN IF MaxedOut(n)
          THEN /\ \E o \in (IF cur.storage_path # None
                            THEN QuarantineFailedIntent(cur.storage_path, fs)
                            ELSE {[ok |-> TRUE, fs |-> fs, path |-> None]}) :
                    /\ fs' = o.fs
                    /\ moveErr' = IF o.ok THEN moveErr ELSE moveErr \cup {cur.id}
               /\ attempts' = [attempts EXCEPT ![cur.id] = 0]
               /\ outcome' = [id |-> cur.id, kind |-> "dropped"]
               /\ queue' = queue
               /\ lock' = lock
          ELSE /\ attempts' = [attempts EXCEPT ![cur.id] = n]
               /\ queue' = PushFront(queue, cur)
               /\ outcome' = [id |-> cur.id, kind |-> "requeued"]
               /\ lock' = DropWrite(Write(lock))
               /\ UNCHANGED <<fs, moveErr>>
    /\ cur' = None
    /\ pc' = "pop"
    /\ UNCHANGED <<align, chan, shutdownCalled, notified, scan, scanned, relocErr, handed,
                   reactOk, beat, journal, spIncr, aux, backlog, calls>>

\* ------------------------------------------------------------------------
\* The steps of the orchestrator task
OrchestratorNext ==
    \/ LoadExistingQueue
    \/ Tick
    \/ RecvCmd
    \/ BreakLoop
    \/ IngestScan
    \/ IngestRecord
    \/ IngestDone
    \/ Pop
    \/ RunReact
    \/ Stage
    \/ Archive
    \/ HandleFailure

Next ==
    \/ \E f \in Files, a \in AlignVals : PersistIntent(f, a)
    \/ \E f \in Files : RequestBeat(f)
    \/ RequestShutdown
    \/ OrchestratorNext

Spec == Init /\ [][Next]_vars

\* The orchestrator task is scheduled as long as it has a step to take: the
\* timer fires, every awaited call returns.
FairSpec == Spec /\ WF_vars(OrchestratorNext)

\* ------------------------------------------------------------------------
\* storage::archive_intent called directly, any number of times, on any data
\* directory in which each record file is in at most one place

InitArchive ==
    /\ fs \in {S \in SUBSET Paths :
                  \A f \in Files : Cardinality({d \in REQUIRED_DIRS : <<d, f>> \in S}) <= 1}
    /\ align = [f \in Files |-> Threshold]
    /\ queue = <<>>
    /\ pc = "boot"
    /\ cmds = 0
    /\ sending = {}
    /\ shutdownCalled = FALSE
    /\ notified = FALSE
    /\ scan = <<>>
    /\ cur = None
    /\ attempts = [f \in Files |-> 0]
    /\ NoCycle
    /\ reply = [f \in Files |-> "none"]
    /\ hdr = [f \in Files |-> "full"]
    /\ minted = 0
    /\ mem = NoMemory
    /\ probe = None
    /\ sp = NoIndex
    /\ text = NoText
    /\ backlog = 0
    /\ calls = None
    /\ lock = Unlocked

\* The intents archive_intent is called with: no storage path, or a path of
\* the record in any directory
ArchiveInputs ==
    {Intent(f, Threshold, path) :
        f \in Files, path \in {None} \cup REQUIRED_DIRS \X Files}

ArchiveCall(intent) ==
    /\ \E o \in ArchiveIntent(intent, fs) :
         /\ fs' = o.fs
         /\ probe' = [intent |-> intent,
                      ok |-> o.ok,
                      missing |-> intent.storage_path \notin fs,
                      changed |-> o.fs # fs,
                      again |-> probe # None /\ probe.intent = intent]
    /\ UNCHANGED <<align, queue, pc, chan, shutdownCalled, notified, scan, cur, attempts,
                   cycle, hdr, minted, mem, sp, obs, text>>

NextArchive == \E intent \in ArchiveInputs : ArchiveCall(intent)

SpecArchive == InitArchive /\ [][NextArchive]_vars

\* ------------------------------------------------------------------------
\* Scanning record files of any origin: the inbox and the queue directory
\* hold files whose headers may lack the id or not parse, the orchestrator
\* starts, ingests, and the process is started again

\* main: a new process on the same data directory; nothing in memory survives
Restart ==
    /\ pc # "boot"
    /\ pc' = "boot"
    /\ queue' = <<>>
    /\ scan' = <<>>
    /\ cur' = None
    /\ cmds' = 0
    /\ sending' = {}
    /\ shutdownCalled' = FALSE
    /\ notified' = FALSE
    /\ attempts' = [f \in Files |-> 0]
    /\ UNCHANGED <<disk, reply, cycle, aux, obs>>

InitScan ==
    /\ fs \in {S \in SUBSET ({Inbox, QueueDir} \X Files) :
                  \A f \in Files : ~(<<Inbox, f>> \in S /\ <<QueueDir, f>> \in S)}
    /\ align \in [Files -> {Threshold - 1, Threshold}]
    /\ hdr \in [Files -> HeaderKinds]
    /\ queue = <<>>
    /\ pc = "boot"
    /\ cmds = 0
    /\ sending = {}
    /\ shutdownCalled = FALSE
    /\ notified = FALSE
    /\ scan = <<>>
    /\ cur = None
    /\ attempts = [f \in Files |-> 0]
    /\ NoCycle
    /\ reply = [f \in Files |-> "none"]
    /\ minted = 0
    /\ mem = NoMemory
    /\ probe = None
    /\ sp = NoIndex
    /\ text = NoText
    /\ backlog = 0
    /\ calls = None
    /\ lock = Unlocked

NextScan ==
    \/ LoadExistingQueue
    \/ Tick
    \/ IngestScan
    \/ IngestRecord
    \/ IngestDone
    \/ Restart

SpecScan == InitScan /\ [][NextScan]_vars

\* ------------------------------------------------------------------------
\* run_with_retry called directly: the operation's successive invocations
\* return Ok or one of two errors, one invocation more than may be made

OperationResults == [1..STORAGE_RETRY_ATTEMPTS + 1 -> {"ok", "io error", "parse error"}]

RetryCall(stage, returns) ==
    /\ probe' = [stage |-> stage,
                 returns |-> returns,
                 r |-> RunWithRetry([i \in DOMAIN returns |-> returns[i] = "ok"])]
    /\ UNCHANGED <<disk, queue, pc, chan, shutdownCalled, notified, scan, cur, attempts,
                   cycle, hdr, minted, mem, sp, obs, text>>

NextRetry == \E stage \in RetryStages, returns \in OperationResults : RetryCall(stage, returns)

SpecRetry == Init /\ [][NextRetry]_vars

\* ------------------------------------------------------------------------
\* storage/memory.rs: the memory store.  mem.l1[d] is the lines of the L1
\* file of day d, mem.l2[d] the L2 document of the day or None, mem.ids the
\* number of ids drawn from Uuid::new_v4, mem.now the clock, mem.today the day.

\* The snapshots ingest_memory_snapshot is called with: the intent's summary
\* and source, and whether it has a history path under the data directory
MemorySnapshotInputs ==
    [summary : 1..NumSummaries, source : {"user"}, history : BOOLEAN]

\* The L1 entry ingest_memory_snapshot builds: the history anchor if any, then
\* the journal anchor of the day; the source and final-answer detail lines
L1Entry(input, id, now, day) ==
    [id |-> id,
     summary |-> input.summary,
     details |-> << <<"Source", input.source>>, <<"Final", input.summary>> >>,
     anchors |-> (IF input.history THEN << <<"intent/history", input.summary>> >> ELSE <<>>)
                 \o << <<"journals", day>> >>,
     tags |-> {<<"source", input.source>>, <<"word", input.summary>>},
     created_at |-> now]

\* persist_l1_entry: one more line in the file of the day
PersistL1Entry(store, entry, day) ==
    [store EXCEPT !.l1[day] = Append(@, entry)]

\* a rebuild that always mints a new id and takes the time of the rebuild
PreviousId_AlwaysNew(existing, entries, fresh, now) == [id |-> fresh, created_at |-> now]

\* (previous_id, created_at) of rebuild_l2_for_day: those of the existing L2
\* document, else a new id and the time of the first L1 entry
PreviousId(existing, entries, fresh, now) ==
    IF existing # None THEN [id |-> existing.id, created_at |-> existing.created_at]
    ELSE [id |-> fresh, created_at |-> entries[1].created_at]

RECURSIVE DedupAnchors(_, _)
\* if seen.insert(anchor.clone()) { anchors.push(anchor.clone()) }
DedupAnchors(anchors, acc) ==
    IF anchors = <<>> THEN acc
    ELSE DedupAnchors(Tail(anchors),
                      IF \E i \in 1..Len(acc) : acc[i] = Head(anchors)
                      THEN acc ELSE Append(acc, Head(anchors)))

RECURSIVE AllAnchors(_)
AllAnchors(entries) ==
    IF entries = <<>> THEN <<>> ELSE Head(entries).anchors \o AllAnchors(Tail(entries))

\* entries.iter().take(6)
DETAIL_LIMIT == 6

\* rebuild_l2_for_day: nothing without L1 lines; else the rollup replaces the
\* L2 document of the day
RebuildL2ForDay(store, day) ==
    LET entries == store.l1[day]
        existing == store.l2[day]
        kept == PreviousId(existing, entries, store.ids + 1, store.now)
        shown == IF Len(entries) < DETAIL_LIMIT THEN Len(entries) ELSE DETAIL_LIMIT
        rollup == [id |-> kept.id,
                   summary |-> <<Len(entries), day>>,
                   details |-> [i \in 1..shown |-> <<"bullet", entries[i].summary>>],
                   anchors |-> DedupAnchors(AllAnchors(entries), <<>>),
                   tags |-> UNION {entries[i].tags : i \in 1..Len(entries)},
                   created_at |-> kept.created_at,
                   updated_at |-> store.now]
    IN IF entries = <<>> THEN store
       ELSE [store EXCEPT !.l2[day] = rollup,
                          !.ids = IF existing # None THEN @ ELSE @ + 1]

\* ingest_memory_snapshot at a time of day `day`: persist_l1_entry(..)?, then
\* rebuild_l2_for_day(..)?; either may return an I/O error
IngestMemorySnapshot(input, day) ==
    /\ mem.now < MaxSnapshots
    /\ day >= mem.today
    /\ LET clock == [mem EXCEPT !.now = @ + 1, !.today = day, !.ids = @ + 1]
           entry == L1Entry(input, clock.ids, clock.now, day)
           appended == PersistL1Entry(clock, entry, day)
       IN \/ mem' = clock
          \/ mem' = appended
          \/ mem' = RebuildL2ForDay(appended, day)
    /\ UNCHANGED <<disk, queue, pc, chan, shutdownCalled, notified, scan, cur, attempts,
                   cycle, hdr, minted, probe, sp, obs, text>>

NextMemory == \E input \in MemorySnapshotInputs, day \in Days : IngestMemorySnapshot(input, day)

SpecMemory == Init /\ [][NextMemory]_vars

\* ------------------------------------------------------------------------
\* storage::update_sp_index called directly, at most MaxUpdates times, on no
\* index, or on the index that SP_LIMIT intents have left after each was
\* completed once, or twice.  Utc::now() grows from call to call.

PriorIndexes ==
    {NoIndex,
     Replay(NoIndex, PriorSummaries),
     Replay(NoIndex, PriorSummaries \o PriorSummaries)}

InitIndex ==
    /\ sp \in {[index EXCEPT !.n = 0, !.last = None] : index \in PriorIndexes}
    /\ align = [f \in Files |-> 0]
    /\ fs = {}
    /\ queue = <<>>
    /\ pc = "boot"
    /\ cmds = 0
    /\ sending = {}
    /\ shutdownCalled = FALSE
    /\ notified = FALSE
    /\ scan = <<>>
    /\ cur = None
    /\ attempts = [f \in Files |-> 0]
    /\ NoCycle
    /\ reply = [f \in Files |-> "none"]
    /\ hdr = [f \in Files |-> "full"]
    /\ minted = 0
    /\ mem = NoMemory
    /\ probe = None
    /\ text = NoText
    /\ backlog = 0
    /\ calls = None
    /\ lock = Unlocked

\* update_sp_index: Ok with the file rewritten, or the error of one of its
\* I/O calls with the file as it was
UpdateSpIndex(intent_summary, final_answer) ==
    /\ sp.n < MaxUpdates
    /\ LET now == sp.now + 1
           summary == SynthSummary(intent_summary, final_answer)
       IN \/ sp' = Updated(sp, summary, now)
          \/ sp' = [sp EXCEPT !.now = now, !.n = @ + 1, !.last = None]
    /\ UNCHANGED <<disk, queue, pc, chan, shutdownCalled, notified, scan, cur, attempts,
                   cycle, hdr, minted, mem, probe, obs, text>>

NextIndex ==
    \E intent_summary \in UpdateSummaries, final_answer \in FinalAnswers :
        UpdateSpIndex(intent_summary, final_answer)

SpecIndex == InitIndex /\ [][NextIndex]_vars

\* ------------------------------------------------------------------------
\* The orchestrator alone on a data directory whose inbox and queue directory
\* hold admitted records, with the invocations of each storage operation
\* counted for the intent in hand

InitPass ==
    /\ fs \in {S \in SUBSET ({Inbox, QueueDir} \X Files) :
                  \A f \in Files : ~(<<Inbox, f>> \in S /\ <<QueueDir, f>> \in S)}
    /\ align = [f \in Files |-> IF \E d \in REQUIRED_DIRS : <<d, f>> \in fs
                                 THEN Threshold ELSE 0]
    /\ queue = <<>>
    /\ pc = "boot"
    /\ cmds = 0
    /\ sending = {}
    /\ shutdownCalled = FALSE
    /\ notified = FALSE
    /\ scan = <<>>
    /\ cur = None
    /\ attempts = [f \in Files |-> 0]
    /\ NoCycle
    /\ reply = [f \in Files |-> "none"]
    /\ hdr = [f \in Files |-> "full"]
    /\ minted = 0
    /\ mem = NoMemory
    /\ probe = None
    /\ sp = NoIndex
    /\ text = NoText
    /\ backlog = 0
    /\ calls = NoCalls
    /\ lock = Unlocked

NextPass ==
    \/ LoadExistingQueue
    \/ Tick
    \/ IngestScan
    \/ IngestRecord
    \/ IngestDone
    \/ Pop
    \/ RunReact
    \/ Stage
    \/ Archive
    \/ HandleFailure

SpecPass == InitPass /\ [][NextPass]_vars

\* ========================================================================
\* Properties

Count(seq, x) == Cardinality({i \in 1..Len(seq) : seq[i] = x})

Range(seq) == {seq[i] : i \in 1..Len(seq)}

InDir(dir, f) == <<dir, f>> \in fs

\* The loop of ingest_inbox has ended and run_beat has not yet gone on
IngestEnd == pc = "ingest" /\ scan = <<>>

\* The drain loop is about to observe an empty queue and end the pass
PassEnd == pc = "pop" /\ queue = <<>>

\* The record with id f is in the queue with its storage path at its queue file
Enqueued(f) ==
    \E i \in 1..Len(queue) : queue[i].id = f /\ queue[i].storage_path = <<QueueDir, f>>

\* C1: when the loop of ingest_inbox has ended, every record the inbox scan
\* returned whose alignment is at or above the threshold is in the queue
\* directory, no longer in the inbox, and in the in-memory queue with its
\* storage path at the queue file.  (A record whose own relocation returned
\* the error is left out: what is stated is what Ingest does with the others.)
C1_AdmittedRelocatedAndEnqueued ==
    IngestEnd =>
        \A i \in 1..Len(scanned) :
            LET f == scanned[i].intent.id
            IN (Admit(scanned[i].intent.telos_alignment) /\ relocErr # f)
                   => (InDir(QueueDir, f) /\ ~InDir(Inbox, f) /\ Enqueued(f))

\* C2: when the loop of ingest_inbox has ended, every record the inbox scan
\* returned whose alignment is below the threshold is in the deferred
\* directory (unless its own relocation returned the error); and in every
\* state no record below the threshold is in the queue, being processed or
\* has been handed to run_react.
C2_BelowThresholdDeferredNeverEnqueued ==
    /\ IngestEnd =>
           \A i \in 1..Len(scanned) :
               LET f == scanned[i].intent.id
               IN (~Admit(scanned[i].intent.telos_alignment) /\ relocErr # f)
                      => (InDir(Deferred, f) /\ ~InDir(Inbox, f))
    /\ \A f \in Files :
           (align[f] # 0 /\ ~Admit(align[f]))
               => /\ f \notin QueueIds(queue)
                  /\ (cur # None => cur.id # f)
                  /\ f \notin Range(handed)

\* C3 as stated: no intent is handed to process_intent more than 3 times in
\* one pass, and when run_beat has just dropped an intent after its third
\* failure the intent is not in the queue and its file is in the failed
\* directory and no longer in the queue directory.
C3_DroppedFileIsInFailed ==
    /\ \A f \in Files : Count(handed, f) <= INTENT_REQUEUE_ATTEMPTS
    /\ (pc = "pop" /\ outcome # None /\ outcome.kind = "dropped")
           => /\ outcome.id \notin QueueIds(queue)
              /\ InDir(Failed, outcome.id)
              /\ ~InDir(QueueDir, outcome.id)

\* C3 amended: no intent is handed to process_intent more than 3 times in
\* one pass; an intent is dropped exactly when its third attempt has failed,
\* is then out of the queue with its failure count removed, and its file is
\* in the failed directory if the relocation succeeded and still in the queue
\* directory if the relocation returned an error; an intent pushed back has
\* failed fewer than 3 times.
C3_QuarantineAfterThreeFailures ==
    /\ \A f \in Files : Count(handed, f) <= INTENT_REQUEUE_ATTEMPTS
    /\ (pc = "pop" /\ outcome # None /\ outcome.kind = "dropped")
           => /\ Count(handed, outcome.id) = INTENT_REQUEUE_ATTEMPTS
              /\ outcome.id \notin QueueIds(queue)
              /\ attempts[outcome.id] = 0
              /\ IF outcome.id \in moveErr
                 THEN InDir(QueueDir, outcome.id) /\ ~InDir(Failed, outcome.id)
                 ELSE InDir(Failed, outcome.id) /\ ~InDir(QueueDir, outcome.id)
    /\ (pc = "pop" /\ outcome # None /\ outcome.kind = "requeued")
           => /\ Count(handed, outcome.id) < INTENT_REQUEUE_ATTEMPTS
              /\ attempts[outcome.id] = Count(handed, outcome.id)

C3_Witness ==
    /\ pc = "pop"
    /\ outcome # None
    /\ outcome.kind = "dropped"
    /\ Count(handed, outcome.id) = INTENT_REQUEUE_ATTEMPTS
    /\ InDir(Failed, outcome.id)

\* C4: when run_beat has just pushed a failed intent back, that intent is at
\* the front of the queue and is what pop_next returns next; and in the order
\* of hand-overs to process_intent the attempts of one intent are contiguous,
\* so no other intent is processed between a failure and its retry.
C4_FailedIntentRetriedFirst ==
    /\ (pc = "pop" /\ outcome # None /\ outcome.kind = "requeued")
           => /\ queue # <<>>
              /\ PopNext(queue).intent.id = outcome.id
    /\ \A i, j, k \in 1..Len(handed) :
           (i < j /\ j < k /\ handed[i] = handed[k]) => handed[j] = handed[i]

C4_Witness ==
    /\ Len(handed) >= 2
    /\ handed[1] = handed[2]
    /\ pc = "agent"
    /\ cur.id = handed[1]
    /\ queue # <<>>

\* Position of record f in the result of the inbox scan, 0 if it is not there
ScanPos(f) ==
    IF \E i \in 1..Len(scanned) : scanned[i].intent.id = f
    THEN CHOOSE i \in 1..Len(scanned) : scanned[i].intent.id = f
    ELSE 0

\* C5: as long as no intent has been handed to process_intent a second time
\* in the pass (no attempt has failed and been retried), the intents admitted
\* by the Ingest of this cycle are handed over in the order in which the scan
\* returned them, which is ascending creation time.
C5_FifoByCreationTime ==
    (\A f \in Files : Count(handed, f) <= 1)
        => \A i, j \in 1..Len(handed) :
               (i < j /\ ScanPos(handed[i]) # 0 /\ ScanPos(handed[j]) # 0)
                   => /\ ScanPos(handed[i]) < ScanPos(handed[j])
                      /\ CreatedAt(handed[i]) <= CreatedAt(handed[j])

C5_Witness ==
    /\ Len(handed) = 2
    /\ handed[1] # handed[2]
    /\ ScanPos(handed[1]) # 0
    /\ ScanPos(handed[2]) # 0
    /\ handed[1] > handed[2]
    /\ CreatedAt(handed[1]) < CreatedAt(handed[2])

\* The count of the usage-index entry of a summary line, the index holding
\* no entry for the line when the cycle began
SpCount(line) ==
    LET S == {f \in Files : SummaryLine(f) = line}
        RECURSIVE Sum(_)
        Sum(T) == IF T = {} THEN 0
                  ELSE LET f == CHOOSE g \in T : TRUE IN spIncr[f] + Sum(T \ {f})
    IN Sum(S)

\* The records admitted by the Ingest of the current cycle
AdmittedScanned ==
    {scanned[i].intent.id : i \in {k \in 1..Len(scanned) :
                                       Admit(scanned[k].intent.telos_alignment)}}

\* A cycle in which no call has failed is ending
CleanEnd == PassEnd /\ beat = "clean"

C7_AlwaysFailingEndsInFailed ==
    (PassEnd /\ ~reactOk) =>
        \A f \in Range(handed) :
            /\ InDir(Failed, f) /\ ~InDir(History, f) /\ ~InDir(QueueDir, f)
            /\ f \notin QueueIds(queue)

\* C7 amended: at the end of such a pass every intent that was in the queue
\* has been attempted 3 times and dropped from the queue, its file is not in
\* history, and it is in the failed directory unless the relocation to failed
\* returned an error, in which case it is still in the queue directory.
C7_AlwaysFailingDropsAndQuarantines ==
    (PassEnd /\ ~reactOk) =>
        \A f \in Range(handed) :
            /\ Count(handed, f) = INTENT_REQUEUE_ATTEMPTS
            /\ f \notin QueueIds(queue)
            /\ ~InDir(History, f)
            /\ IF f \in moveErr
               THEN InDir(QueueDir, f) /\ ~InDir(Failed, f)
               ELSE InDir(Failed, f) /\ ~InDir(QueueDir, f)

C7_Witness ==
    /\ PassEnd
    /\ ~reactOk
    /\ Len(handed) = 2 * INTENT_REQUEUE_ATTEMPTS
    /\ moveErr = {}
    /\ \A f \in Range(handed) : InDir(Failed, f)

\* C8: every call of archive_intent on an intent that has no storage path or
\* whose storage path does not exist returns Ok and leaves every directory as
\* it was, whatever was called before.
C8_ArchiveOfMissingIsNoOp ==
    (probe # None /\ probe.missing) => (probe.ok /\ ~probe.changed)

C8_Witness ==
    /\ probe # None
    /\ probe.again
    /\ probe.missing
    /\ probe.intent.storage_path = <<QueueDir, probe.intent.id>>
    /\ InDir(History, probe.intent.id)
    /\ probe.ok

\* C9: once request_shutdown has been called the orchestrator task ends.
C9_ShutdownTerminates == shutdownCalled ~> (pc = "done")

\* A cycle is in flight
InCycle == pc \notin {"boot", "select", "done"}

\* C10: a step taken while a cycle is in flight never ends the task and
\* never starts another cycle; it returns to select! only from the pop that
\* finds the queue empty; and a shutdown request, a submission or a command
\* sent during the cycle leaves the orchestrator's position, queue and
\* current intent as they are.
C10_CycleRunsToCompletion ==
    [][InCycle =>
          /\ pc' # "done"
          /\ (pc' = "ingest_scan" => pc = "ingest_scan")
          /\ (pc' = "select" => (pc = "pop" /\ queue = <<>> /\ queue' = <<>>))
          /\ (shutdownCalled' # shutdownCalled \/ cmds' # cmds \/ sending' # sending)
                 => (pc' = pc /\ queue' = queue /\ cur' = cur)]_vars

C10_Witness ==
    /\ InCycle
    /\ cur # None
    /\ shutdownCalled
    /\ cmds > 0

\* Each record file is in at most one of the five directories
OneCopy == \A f \in Files : Cardinality({d \in REQUIRED_DIRS : <<d, f>> \in fs}) <= 1

\* C11: in every state each record file has at most one copy among inbox,
\* queue, deferred, failed and history; and in every step a path that
\* disappears reappears under the same file name in another directory, and a
\* path that appears outside the inbox is one that disappeared elsewhere.
C11_AtMostOneCopyOnDisk ==
    /\ []OneCopy
    /\ [][/\ \A p \in fs \ fs' : \E q \in fs' \ fs : q[2] = p[2] /\ q[1] # p[1]
          /\ \A q \in fs' \ fs :
                 q[1] # Inbox => \E p \in fs \ fs' : p[2] = q[2]]_vars

C11_Witness ==
    \E f, g \in Files : InDir(History, f) /\ InDir(Failed, g) /\ OneCopy

\* C12: an intent in the in-memory queue carries the id the record of the
\* same file carried when the inbox scan returned it, also after a restart
\* has rebuilt the queue from the queue directory.
C12_IdStableAcrossRebuild ==
    \A i \in 1..Len(queue), j \in 1..Len(scanned) :
        (queue[i].storage_path # None /\ queue[i].storage_path[2] = scanned[j].path[2])
            => queue[i].id = scanned[j].intent.id

\* C15: when a relocation has failed in the Ingest loop, every other record
\* of the same scan has left the inbox: it is in the queue directory and
\* enqueued if admitted, in the deferred directory if not.
C15_RelocationFailureSkipsOnlyThatRecord ==
    (IngestEnd /\ relocErr # 0) =>
        \A i \in 1..Len(scanned) :
            LET f == scanned[i].intent.id
            IN f # relocErr =>
                   /\ ~InDir(Inbox, f)
                   /\ IF Admit(scanned[i].intent.telos_alignment)
                      THEN InDir(QueueDir, f) /\ Enqueued(f)
                      ELSE InDir(Deferred, f)

\* C16: once the orchestrator has started scanning, scan_inbox and scan_queue
\* return the record of every file of the directory whose header parses,
\* whatever the other files hold.
C16_MalformedFileFailsOnlyItsParse ==
    pc # "boot" =>
    \A dir \in {Inbox, QueueDir} :
        LET r == ScanIntentDir(dir, fs, align, hdr, minted)
        IN \A f \in Files :
               (<<dir, f>> \in fs /\ hdr[f] # "malformed")
                   => \E i \in 1..Len(r.records) : r.records[i].path = <<dir, f>>

\* The elements of a sequence
Elems(seq) == {seq[i] : i \in 1..Len(seq)}

\* C13: the L2 documents of different days have different ids, and a step
\* that finds an L2 document for a day leaves a document for that day with
\* the same id and the same created_at.
C13_L2IdStableAcrossRebuilds ==
    /\ [](\A d, e \in Days :
              (d # e /\ mem.l2[d] # None /\ mem.l2[e] # None) => mem.l2[d].id # mem.l2[e].id)
    /\ [][\A d \in Days :
              mem.l2[d] # None =>
                  /\ mem'.l2[d] # None
                  /\ mem'.l2[d].id = mem.l2[d].id
                  /\ mem'.l2[d].created_at = mem.l2[d].created_at]_vars

C13_Witness ==
    \E d \in Days :
        /\ mem.l2[d] # None
        /\ Len(mem.l1[d]) = MaxSnapshots
        /\ mem.l2[d].summary[1] = MaxSnapshots
        /\ mem.l2[d].created_at = mem.l1[d][1].created_at
        /\ mem.l2[d].updated_at > mem.l2[d].created_at

\* C14: the L2 document of a day has as details, anchors and tags the union
\* of the details, anchors and tags of the L1 entries of the day the last
\* rebuild read.
C14_L2IsUnionOfL1 ==
    \A d \in Days :
        mem.l2[d] # None =>
            LET n == mem.l2[d].summary[1]
            IN /\ Elems(mem.l2[d].details) = UNION {Elems(mem.l1[d][i].details) : i \in 1..n}
               /\ Elems(mem.l2[d].anchors) = UNION {Elems(mem.l1[d][i].anchors) : i \in 1..n}
               /\ mem.l2[d].tags = UNION {mem.l1[d][i].tags : i \in 1..n}

\* C17: run_with_retry makes between 1 and 3 invocations, each before the
\* last having failed; it sleeps once between a failed invocation and the
\* next; it returns Ok exactly when the last invocation made returned Ok, and
\* otherwise has made 3 invocations and returns the error of the third.
C17_RetryAtMostThreeTimes ==
    probe # None =>
        LET r == probe.r
            n == r.invocations
        IN /\ n \in 1..STORAGE_RETRY_ATTEMPTS
           /\ \A j \in 1..(n - 1) : probe.returns[j] # "ok"
           /\ r.sleeps = n - 1
           /\ r.ok <=> probe.returns[n] = "ok"
           /\ r.ok => r.err = 0
           /\ ~r.ok => (n = STORAGE_RETRY_ATTEMPTS /\ r.err = STORAGE_RETRY_ATTEMPTS)

C17_Witness ==
    /\ probe # None
    /\ ~probe.r.ok
    /\ probe.r.invocations = STORAGE_RETRY_ATTEMPTS
    /\ probe.returns[1] # probe.returns[STORAGE_RETRY_ATTEMPTS]
    /\ probe.returns[STORAGE_RETRY_ATTEMPTS + 1] = "ok"

\* C18: a persistence step is entered only from the step before it in the
\* order llm_logs, journal, sp_index, archive, the first from run_react; the
\* journal, the usage index and history are written only by their own step as
\* it succeeds; a step that fails writes nothing and leads to the failure
\* handling, from which no step is entered.
C18_StepsInFixedOrder ==
    [][/\ (pc' # pc /\ pc' = "llm_logs") => pc = "agent"
       /\ (pc' # pc /\ pc' = "journal") => pc = "llm_logs"
       /\ (pc' # pc /\ pc' = "sp_index") => pc = "journal"
       /\ (pc' # pc /\ pc' = "archive") => pc = "sp_index"
       /\ (pc # "pop" /\ journal' # journal) => (pc = "journal" /\ pc' = "sp_index")
       /\ (pc # "pop" /\ spIncr' # spIncr) => (pc = "sp_index" /\ pc' = "archive")
       /\ (\E f \in Files : InDir(History, f)' /\ ~InDir(History, f))
              => (pc = "archive" /\ pc' = "pop" /\ outcome'.kind = "done")
       /\ (pc' # pc /\ pc' = "on_err")
              => /\ pc \in {"agent", "llm_logs", "journal", "sp_index", "archive"}
                 /\ journal' = journal /\ spIncr' = spIncr /\ fs' = fs
       /\ pc = "on_err" => pc' \in {"on_err", "pop"}]_vars

C18_Witness ==
    /\ pc = "pop"
    /\ outcome # None
    /\ outcome.kind = "done"
    /\ journal[outcome.id] = 1
    /\ spIncr[outcome.id] = 1
    /\ InDir(History, outcome.id)

\* C19: a command leaves the channel only one at a time, taken by select! as
\* it starts a cycle; a cycle starts only from select!, by the timer or by
\* one command; a command sent while a cycle runs is buffered and stays in
\* the channel until the cycle has ended.
C19_OneCyclePerTrigger ==
    [][/\ cmds' < cmds => (cmds' = cmds - 1 /\ pc = "select" /\ pc' = "ingest_scan")
       /\ (pc' = "ingest_scan" /\ pc # "ingest_scan")
              => (pc = "select" /\ cmds' \in {cmds, cmds - 1})
       /\ cmds' > cmds => (cmds' = cmds + 1 /\ pc' = pc /\ queue' = queue)
       /\ InCycle => cmds' >= cmds]_vars

C19_Witness ==
    /\ \A f \in Files : reply[f] = BeatScheduled(TRUE)
    /\ cmds = MaxCmds - 1
    /\ pc = "ingest_scan"

\* C20: once the orchestrator task has ended, a pending request_beat can
\* return; an answer without a scheduled beat is given only then, and its
\* record file exists; and the request_beat that returns after the end gives
\* the answer "accepted, no beat" and changes neither the disk nor the channel.
C20_SendAfterShutdownIsSoftFailure ==
    /\ [](\A f \in Files :
              /\ (pc = "done" /\ f \in sending) => ENABLED RequestBeat(f)
              /\ reply[f] = BeatScheduled(FALSE)
                     => (pc = "done" /\ \E d \in REQUIRED_DIRS : InDir(d, f)))
    /\ [][\A f \in Files :
              (pc = "done" /\ f \in sending /\ f \notin sending')
                  => /\ reply'[f] = BeatScheduled(FALSE)
                     /\ fs' = fs
                     /\ cmds' = cmds]_vars

C20_Witness ==
    \E f \in Files :
        /\ pc = "done"
        /\ reply[f] = BeatScheduled(FALSE)
        /\ InDir(Inbox, f)

\* C21: a step of a submission handler (persist_intent, then request_beat)
\* adds one file to the inbox or sends at most one command and changes nothing
\* else: not the queue, not the orchestrator's position, scan or intent in
\* hand; and the queue changes only in a step of the orchestrator (loading at
\* start, Ingest, pop, push-front), which is no step of a handler.
C21_SubmissionLeavesQueueAlone ==
    [][/\ (sending' # sending \/ reply' # reply)
              => /\ queue' = queue
                 /\ pc' = pc /\ cur' = cur /\ scan' = scan /\ attempts' = attempts
       /\ \A f \in Files :
              (f \in sending' /\ f \notin sending)
                  => /\ <<Inbox, f>> \notin fs
                     /\ fs' = fs \cup {<<Inbox, f>>}
                     /\ cmds' = cmds
       /\ \A f \in Files :
              (f \in sending /\ f \notin sending')
                  => /\ fs' = fs
                     /\ cmds' \in {cmds, cmds + 1}
       /\ queue' # queue
              => /\ pc \in {"boot", "ingest", "pop", "on_err"}
                 /\ sending' = sending /\ reply' = reply /\ cmds' = cmds]_vars

C21_Witness ==
    \E f \in Files :
        /\ reply[f] = BeatScheduled(TRUE)
        /\ InDir(Inbox, f)
        /\ cmds > 0
        /\ queue # <<>>
        /\ f \notin QueueIds(queue)

\* The record files directly in the queue directory
QueueFiles == {f \in Files : InDir(QueueDir, f)}

Holds(entries, summary) == \E i \in 1..Len(entries) : entries[i].summary = summary

\* No summary has two entries in the list
NoDuplicate(entries) ==
    \A i, j \in 1..Len(entries) : i # j => entries[i].summary # entries[j].summary

\* C23: after any sequence of update_sp_index calls top_used and most_recent
\* hold at most 10 entries each, no summary twice in a list, top_used by
\* count descending and among equal counts by last_seen descending,
\* most_recent by last_seen descending.
C23_IndexBoundedSortedUnique ==
    /\ Len(sp.top_used) <= SP_LIMIT
    /\ Len(sp.most_recent) <= SP_LIMIT
    /\ NoDuplicate(sp.top_used)
    /\ NoDuplicate(sp.most_recent)
    /\ \A i, j \in 1..Len(sp.top_used) :
           i < j => \/ sp.top_used[i].count > sp.top_used[j].count
                    \/ /\ sp.top_used[i].count = sp.top_used[j].count
                       /\ sp.top_used[i].last_seen >= sp.top_used[j].last_seen
    /\ \A i, j \in 1..Len(sp.most_recent) :
           i < j => sp.most_recent[i].last_seen >= sp.most_recent[j].last_seen

C23_Witness ==
    /\ Len(sp.top_used) = SP_LIMIT
    /\ Len(sp.most_recent) = SP_LIMIT
    /\ sp.top_used[1].count > sp.top_used[SP_LIMIT].count
    /\ \E s \in AllSummaries :
           sp.seen[s] > 0 /\ ~Holds(sp.top_used, s) /\ ~Holds(sp.most_recent, s)
    /\ \E i \in 1..SP_LIMIT : sp.top_used[i].summary # sp.most_recent[i].summary

\* The summaries update_sp_index has written
Written == {s \in AllSummaries : sp.seen[s] > 0}

\* C24: an entry of top_used never counts more updates than were made with
\* exactly its summary; and as long as no more than 10 different summaries
\* have been written, so from no index after k updates with one summary,
\* each written summary has exactly one entry in top_used, whose count is the
\* number of updates made with exactly that summary, and exactly one entry in
\* most_recent: summaries that differ in one character stay apart.
C24_ExactMatchKeying ==
    /\ \A i \in 1..Len(sp.top_used) :
           sp.top_used[i].count <= sp.seen[sp.top_used[i].summary]
    /\ \A i \in 1..Len(sp.most_recent) : sp.seen[sp.most_recent[i].summary] > 0
    /\ Cardinality(Written) <= SP_LIMIT =>
           \A s \in Written :
               /\ Cardinality({i \in 1..Len(sp.top_used) : sp.top_used[i].summary = s}) = 1
               /\ \A i \in 1..Len(sp.top_used) :
                      sp.top_used[i].summary = s => sp.top_used[i].count = sp.seen[s]
               /\ Cardinality({i \in 1..Len(sp.most_recent) :
                                   sp.most_recent[i].summary = s}) = 1

C24_Witness ==
    LET a == SynthSummary(<<1>>, <<1>>)
        b == SynthSummary(<<1>>, <<1, 1>>)
    IN /\ Written = {a, b}
       /\ sp.seen[a] = 2
       /\ sp.seen[b] = 1
       /\ sp.top_used = <<SpEntry(a, 2, sp.now), SpEntry(b, 1, sp.now - 1)>>
       /\ sp.most_recent = <<SpEntry(a, 1, sp.now), SpEntry(b, 1, sp.now - 1)>>

\* C25 as stated: after a successful update_sp_index both lists hold an entry
\* for the summary of the call.
C25_BothListsHoldTheSummary ==
    sp.last # None => (Holds(sp.top_used, sp.last) /\ Holds(sp.most_recent, sp.last))

\* C25 amended: after a successful update_sp_index the first entry of
\* most_recent is that of the call's summary; top_used holds an entry for the
\* summary exactly when it held one before the call or fewer than 10 of its
\* entries had a count of 2 or more.
C25_RecentAlwaysTopUnlessCrowdedOut ==
    [][(sp'.n = sp.n + 1 /\ sp'.last # None)
          => /\ sp'.most_recent # <<>>
             /\ sp'.most_recent[1].summary = sp'.last
             /\ Holds(sp'.top_used, sp'.last)
                    <=> \/ Holds(sp.top_used, sp'.last)
                        \/ Cardinality({i \in 1..Len(sp.top_used) :
                                            sp.top_used[i].count >= 2}) < SP_LIMIT]_vars

C25_Witness ==
    /\ sp.last # None
    /\ sp.most_recent[1].summary = sp.last
    /\ ~Holds(sp.top_used, sp.last)
    /\ Len(sp.top_used) = SP_LIMIT
    /\ sp.top_used[SP_LIMIT].count = 2

\* The ids of the intents in the queue or in hand
Pending == QueueIds(queue) \cup (IF cur = None THEN {} ELSE {cur.id})

\* C26: once a cycle has begun Ingest it goes on to the drain loop with the
\* queue as Ingest left it, whether or not the scan or a relocation returned
\* an error; from then on an intent leaves the queue only into the
\* orchestrator's hand and leaves its hand only after it was handed to
\* process_intent, and the cycle returns to select! only with the queue
\* empty; and a cycle in Ingest does reach the drain loop.
C26_IngestErrorDoesNotAbortCycle ==
    /\ [][/\ pc \in {"ingest_scan", "ingest"} => pc' \in {"ingest_scan", "ingest", "pop"}
          /\ (pc = "ingest" /\ pc' = "pop") => queue' = queue
          /\ pc \in {"pop", "agent", "llm_logs", "journal", "sp_index", "archive", "on_err"}
                 => /\ \A f \in Pending \ Pending' : f \in Range(handed)
                    /\ (pc' = "select" => queue = <<>>)]_vars
    /\ (pc \in {"ingest_scan", "ingest"}) ~> (pc = "pop")

C26_Witness ==
    /\ PassEnd
    /\ relocErr # 0
    /\ handed # <<>>
    /\ relocErr \notin Range(handed)
    /\ \A f \in Range(handed) : InDir(History, f)
    /\ InDir(Inbox, relocErr)

\* The drain loop of run_beat is running
InDrain == pc \in {"pop", "agent", "llm_logs", "journal", "sp_index", "archive", "on_err"}

\* C27: with every call returning, a drain pass that has begun ends; it ends
\* only from the pop that finds the queue empty, with no intent in hand; an
\* intent leaves the queue and the orchestrator's hand only as process_intent
\* returns Ok for it or as it is dropped at its third failure in the pass;
\* and after a drop, whether or not the move to the failed directory
\* succeeded, the loop goes on to pop with the intents behind still queued.
C27_DrainPassTerminates ==
    /\ InDrain ~> (pc = "select")
    /\ [][InDrain =>
             /\ pc' \in {"select"} => (pc = "pop" /\ queue = <<>> /\ cur = None)
             /\ pc' # "done"
             /\ \A f \in Pending \ Pending' :
                    /\ outcome' # None
                    /\ outcome'.id = f
                    /\ \/ outcome'.kind = "done"
                       \/ /\ outcome'.kind = "dropped"
                          /\ Count(handed, f) = INTENT_REQUEUE_ATTEMPTS
             /\ (pc = "on_err" /\ pc' # pc)
                    => /\ pc' = "pop"
                       /\ outcome'.kind = "dropped" => queue' = queue]_vars

C27_Witness ==
    /\ PassEnd
    /\ Len(handed) = INTENT_REQUEUE_ATTEMPTS + 1
    /\ Count(handed, handed[1]) = INTENT_REQUEUE_ATTEMPTS
    /\ InDir(Failed, handed[1])
    /\ handed[Len(handed)] # handed[1]
    /\ InDir(History, handed[Len(handed)])
    /\ outcome.kind = "done"

\* C28: a storage step that succeeds, at its first invocation or after one
\* or two failed ones, never raises the intent's failure count (the count is
\* as it was, or removed as process_intent returns Ok after the archive
\* step); a storage step that returns an error has been invoked 3 times in
\* that run and leaves the count to the Err arm, which raises it by exactly 1
\* (and removes it as it drops the intent at 3); and no storage operation is
\* invoked more than 3 times for each time the intent was handed to
\* process_intent, so at most 9 times for one intent in one pass.
C28_StorageRetriesAndFailureCountIndependent ==
    /\ [](cur # None =>
              \A stage \in RetryStages :
                  /\ calls[stage] <= STORAGE_RETRY_ATTEMPTS * Count(handed, cur.id)
                  /\ calls[stage] <= STORAGE_RETRY_ATTEMPTS * INTENT_REQUEUE_ATTEMPTS)
    /\ [][/\ (pc \in RetryStages /\ pc' # pc /\ pc' # "on_err")
                 => /\ calls'[pc] - calls[pc] \in 1..STORAGE_RETRY_ATTEMPTS
                    /\ \A f \in Files : f # cur.id => attempts'[f] = attempts[f]
                    /\ IF pc = "archive" THEN attempts'[cur.id] = 0
                       ELSE attempts'[cur.id] = attempts[cur.id]
          /\ (pc \in RetryStages /\ pc' = "on_err")
                 => /\ calls'[pc] - calls[pc] = STORAGE_RETRY_ATTEMPTS
                    /\ attempts' = attempts
          /\ (pc = "on_err" /\ pc' # pc)
                 => /\ \A f \in Files : f # cur.id => attempts'[f] = attempts[f]
                    /\ IF outcome'.kind = "requeued"
                       THEN attempts'[cur.id] = attempts[cur.id] + 1
                       ELSE /\ attempts[cur.id] + 1 = INTENT_REQUEUE_ATTEMPTS
                            /\ attempts'[cur.id] = 0]_vars

C28_Witness ==
    /\ pc = "on_err"
    /\ calls["journal"] = STORAGE_RETRY_ATTEMPTS * INTENT_REQUEUE_ATTEMPTS
    /\ calls["llm_logs"] = STORAGE_RETRY_ATTEMPTS + 2
    /\ attempts[cur.id] = INTENT_REQUEUE_ATTEMPTS - 1
    /\ queue # <<>>

\* C29: while process_intent is running for an intent, the backlog_size it
\* passed to run_react is the number of intents in the queue, which does not
\* hold the intent in hand: the count was taken after the pop and counts the
\* intents still waiting.
C29_BacklogCountsWaitingOnly ==
    (cur # None /\ pc \in {"agent", "llm_logs", "journal", "sp_index", "archive", "on_err"})
        => /\ backlog = Cardinality(QueueIds(queue))
           /\ backlog = Len(queue)
           /\ cur.id \notin QueueIds(queue)

C29_Witness ==
    /\ pc = "agent"
    /\ cur # None
    /\ backlog = 1
    /\ Len(queue) = 1
    /\ Count(handed, cur.id) = 1

\* The orchestrator is awaiting select!, the reasoning call, or a storage
\* operation or the delay of run_with_retry
Awaiting == pc \in {"select", "agent", "llm_logs", "journal", "sp_index", "archive"}

\* C30: in every state in which the orchestrator is awaiting, no guard of
\* the queue's lock is alive, so a write() or read() of another task returns
\* at once; and a step that ends in such a state leaves no guard behind.
C30_LockFreeAcrossAwaits ==
    /\ [](Awaiting => (lock = Unlocked /\ CanWrite(lock) /\ CanRead(lock)))
    /\ [][Awaiting' => lock' = Unlocked]_vars

C30_Witness ==
    /\ pc = "journal"
    /\ cur # None
    /\ queue # <<>>
    /\ backlog = Len(queue)
    /\ beat = "dirty"
    /\ lock = Unlocked

\* The directories no operation takes a record out of
Terminal == {Deferred, Failed, History}

\* C31: in every state scan_inbox and scan_queue return records only of files
\* directly in the inbox and directly in the queue directory, so none of the
\* deferred, failed or history directory; the records an Ingest is handling
\* are inbox records; no intent in the queue or in hand has its file in
\* deferred, failed or history; and no step removes a file from deferred,
\* failed or history.
C31_TerminalDirsAreFinal ==
    /\ [](/\ \A dir \in {Inbox, QueueDir} :
                LET r == ScanIntentDir(dir, fs, align, hdr, minted)
                IN \A i \in 1..Len(r.records) :
                       /\ r.records[i].path[1] = dir
                       /\ r.records[i].path \in fs
          /\ \A i \in 1..Len(scan) : scan[i].path[1] = Inbox
          /\ \A f \in Files :
                 (\E d \in Terminal : InDir(d, f))
                     => (f \notin QueueIds(queue) /\ (cur # None => cur.id # f)))
    /\ [][\A p \in fs : p[1] \in Terminal => p \in fs']_vars

C31_Witness ==
    /\ pc = "ingest"
    /\ scanned = <<>>
    /\ beat = "clean"
    /\ queue = <<>>
    /\ \E f, g \in Files : InDir(Deferred, f) /\ InDir(Failed, g)

\* C32: the step in which run_beat counts the third failure of an intent
\* leaves the intent out of the queue and out of hand, its failure count
\* removed and the loop at the next pop, whether the move to the failed
\* directory returned Ok or an error (or there was no storage path to move);
\* when the move returned an error the disk is as it was; a file enters the
\* failed directory only in such a step; and for the rest of the pass a file
\* whose move failed stays in the queue directory, out of the failed
\* directory, its intent neither queued nor in hand.
C32_QuarantineIsFireAndForget ==
    /\ [](\A f \in moveErr :
              /\ InDir(QueueDir, f) /\ ~InDir(Failed, f)
              /\ f \notin QueueIds(queue)
              /\ (cur # None => cur.id # f)
              /\ attempts[f] = 0)
    /\ [][/\ (pc = "on_err" /\ pc' # pc /\ attempts[cur.id] + 1 >= INTENT_REQUEUE_ATTEMPTS)
                 => /\ pc' = "pop"
                    /\ cur' = None
                    /\ queue' = queue
                    /\ cur.id \notin QueueIds(queue')
                    /\ attempts'[cur.id] = 0
                    /\ outcome'.kind = "dropped"
                    /\ IF cur.id \in moveErr' \/ cur.storage_path = None
                       THEN fs' = fs
                       ELSE fs' = (fs \ {cur.storage_path}) \cup {<<Failed, cur.id>>}
          /\ (\E f \in Files : InDir(Failed, f)' /\ ~InDir(Failed, f))
                 => (pc = "on_err" /\ attempts[cur.id] + 1 >= INTENT_REQUEUE_ATTEMPTS)]_vars

C32_Witness ==
    /\ pc = "agent"
    /\ moveErr # {}
    /\ cur.id \notin moveErr
    /\ \A f \in moveErr : InDir(QueueDir, f) /\ Count(handed, f) = INTENT_REQUEUE_ATTEMPTS

\* The positions of the L1 lines of a memory store, by day
L1Lines(store) == UNION {{<<d, i>> : i \in 1..Len(store.l1[d])} : d \in Days}

\* C33: the step in which process_intent returns Ok (the archive of the intent
\* in hand succeeded) adds exactly one line to the L1 logs, and no step changes
\* or removes a line the L1 logs already hold.
C33_SuccessAddsOneL1Entry ==
    [][/\ (pc = "archive" /\ pc' = "pop")
              => Cardinality(L1Lines(mem')) = Cardinality(L1Lines(mem)) + 1
       /\ \A d \in Days : /\ Len(mem'.l1[d]) >= Len(mem.l1[d])
                          /\ SubSeq(mem'.l1[d], 1, Len(mem.l1[d])) = mem.l1[d]]_vars

\* C34: within a pass the journal blocks written for an intent grow by one in
\* exactly the steps in which the journal step of an attempt on it returns Ok,
\* and the usage-index increments by one in exactly the steps in which the
\* usage-index step of an attempt on it returns Ok; no other step changes
\* them before the pass ends. Every attempt starts again at the reasoning
\* call, so an attempt writes the journal before the index, and for every
\* intent  index increments <= journal blocks <= attempts <= 3.
C34_PersistenceRepeatsPerAttempt ==
    /\ [](\A f \in Files :
              /\ spIncr[f] <= journal[f]
              /\ journal[f] <= Count(handed, f)
              /\ Count(handed, f) <= INTENT_REQUEUE_ATTEMPTS)
    /\ [][\/ NoCycle'
          \/ /\ IF pc = "journal" /\ pc' = "sp_index"
                THEN journal' = [journal EXCEPT ![cur.id] = @ + 1]
                ELSE journal' = journal
             /\ IF pc = "sp_index" /\ pc' = "archive"
                THEN spIncr' = [spIncr EXCEPT ![cur.id] = @ + 1]
                ELSE spIncr' = spIncr]_vars

\* three journal blocks and two index increments for an intent now in failed
C34_Witness ==
    /\ outcome # None /\ outcome.kind = "dropped"
    /\ InDir(Failed, outcome.id)
    /\ journal[outcome.id] = INTENT_REQUEUE_ATTEMPTS
    /\ spIncr[outcome.id] = 2

\* The intents the orchestrator holds: those in the queue and the one in hand
Held == Range(queue) \cup (IF cur = None THEN {} ELSE {cur})

\* C35: in every state each intent in the queue or in hand has a storage path
\* that names a file present in the queue directory, and a scan of the queue
\* directory as load_existing_queue makes it reads without a parse error and
\* yields that intent, storage path included.
C35_PendingWorkIsOnDisk ==
    LET r == ScanQueue(fs, align, hdr, minted)
        loaded == {[r.records[i].intent EXCEPT !.storage_path = r.records[i].path] :
                      i \in 1..Len(r.records)}
    IN \A intent \in Held :
           /\ intent.storage_path # None
           /\ intent.storage_path[1] = QueueDir
           /\ intent.storage_path \in fs
           /\ r.ok
           /\ intent \in loaded

\* an intent admitted from the inbox waits while a retried one is in hand
C35_Witness ==
    /\ cur # None /\ attempts[cur.id] > 0
    /\ \E i \in 1..Len(queue) : reply[queue[i].id] # "none"

\* C36: in every state the intents in the queue have pairwise different ids
\* and pairwise different storage paths, and the intent in hand is not in the
\* queue; the queue grows only by the one load at startup, by an Ingest step
\* that moves the pushed record's file out of the inbox, or by the Err arm
\* pushing the intent that was in hand.
C36_NoRecordQueuedTwice ==
    /\ [](/\ \A i, j \in 1..Len(queue) :
                 i # j => /\ queue[i].id # queue[j].id
                          /\ queue[i].storage_path # queue[j].storage_path
          /\ cur # None => cur.id \notin QueueIds(queue))
    /\ [][Len(queue') > Len(queue)
             => \/ pc = "boot" /\ queue = <<>>
                \/ /\ pc = "ingest"
                   /\ queue' = Push(queue, queue'[Len(queue')])
                   /\ <<Inbox, queue'[Len(queue')].id>> \in fs \ fs'
                \/ /\ pc = "on_err"
                   /\ queue' = PushFront(queue, cur)]_vars

\* a requeued intent is back at the front with another intent behind it
C36_Witness ==
    /\ pc = "pop"
    /\ outcome # None /\ outcome.kind = "requeued"
    /\ Len(queue) = NumFiles
    /\ queue[1].id = outcome.id

\* The record of file f was in the queue directory when the orchestrator
\* started: no handler wrote it to the inbox (a handler that has written a
\* record is about to answer or has answered)
AtStartup(f) == f \notin sending /\ reply[f] = "none"

\* C37: in every state the intents load_existing_queue pushed stand in the
\* queue before every intent an Ingest pushed, no intent admitted from the
\* inbox is in hand while an intent recovered at startup is in the queue, and
\* in the order in which the pass hands intents to process_intent no intent
\* admitted from the inbox comes before one recovered at startup.
C37_StartupRecordsFirst ==
    /\ \A i, j \in 1..Len(queue) :
           (i < j /\ AtStartup(queue[j].id)) => AtStartup(queue[i].id)
    /\ (cur # None /\ ~AtStartup(cur.id))
           => \A i \in 1..Len(queue) : ~AtStartup(queue[i].id)
    /\ \A i, j \in 1..Len(handed) :
           (i < j /\ AtStartup(handed[j])) => AtStartup(handed[i])

\* a recovered intent was handed first and one from the inbox is in hand
C37_Witness ==
    /\ Len(handed) >= 2
    /\ AtStartup(handed[1])
    /\ cur # None /\ ~AtStartup(cur.id)
    /\ pc = "agent"

\* The keys of run_beat's `attempts` map
Counted == {f \in Files : attempts[f] > 0}

\* C38: in every state the failure-count map of run_beat has at most one key;
\* the key is the intent in hand or, when none is in hand, the intent the Err
\* arm has just pushed back to the front of the queue, which the next pop
\* takes; outside the drain loop, so when a pass starts, the map is empty; and
\* the step that pops an intent finds no key but that intent's.
C38_OneFailureCountAtATime ==
    /\ [](/\ Cardinality(Counted) <= 1
          /\ \A f \in Counted :
                 IF cur # None THEN cur.id = f
                 ELSE /\ pc = "pop"
                      /\ outcome # None /\ outcome.kind = "requeued" /\ outcome.id = f
                      /\ queue # <<>> /\ queue[1].id = f
          /\ ~InDrain => Counted = {})
    /\ [][(cur = None /\ cur' # None) => Counted \subseteq {cur'.id}]_vars

\* a second intent of the pass is in hand after two failures of its own
C38_Witness ==
    /\ pc = "agent"
    /\ attempts[cur.id] = 2
    /\ handed # <<>> /\ handed[1] # cur.id
    /\ attempts[handed[1]] = 0

\* ------------------------------------------------------------------------
\* The structured-text handlers called one after another on a history that
\* earlier saves have filled

InitText ==
    /\ text \in {SavedTimes(k) : k \in {0, STRUCTURED_TEXT_HISTORY_LIMIT - 1,
                                       STRUCTURED_TEXT_HISTORY_LIMIT}}
    /\ sp = NoIndex
    /\ align = [f \in Files |-> 0]
    /\ fs = {}
    /\ queue = <<>>
    /\ pc = "boot"
    /\ cmds = 0
    /\ sending = {}
    /\ shutdownCalled = FALSE
    /\ notified = FALSE
    /\ scan = <<>>
    /\ cur = None
    /\ attempts = [f \in Files |-> 0]
    /\ NoCycle
    /\ reply = [f \in Files |-> "none"]
    /\ hdr = [f \in Files |-> "full"]
    /\ minted = 0
    /\ mem = NoMemory
    /\ probe = None
    /\ backlog = 0
    /\ calls = None
    /\ lock = Unlocked

\* Utc::now() of a call: at least a microsecond after that of the call before
Clock == {text.now + TicksPerMicro, text.now + TicksPerMicro + 1}

\* the update handler: save_structured_text_preview(content)
SaveText(content) ==
    /\ text.n < MaxSaves
    /\ \E now \in Clock : \E o \in SaveStructuredTextPreview(text, content, now) :
           text' = [o.store EXCEPT !.now = now, !.n = @ + 1,
                                   !.last = IF o.ok THEN "saved" ELSE "error"]
    /\ UNCHANGED <<disk, queue, pc, chan, shutdownCalled, notified, scan, cur, attempts,
                   cycle, hdr, minted, mem, probe, sp, obs>>

\* the ids a restore is asked for: the oldest and the newest entry, an id of
\* no entry, and one that does not parse
RestoreIds ==
    {e.id : e \in {o \in text.history :
                      \/ \A p \in text.history : SavedAt(o) <= SavedAt(p)
                      \/ \A p \in text.history : SavedAt(o) >= SavedAt(p)}}
    \cup {HistoryId(0), <<0>>}

\* the restore handler: restore_structured_text_preview_from_history(id)
RestoreText(id) ==
    /\ text.n < MaxSaves
    /\ \E now \in Clock :
         \E o \in RestoreStructuredTextPreviewFromHistory(text, id, now) :
           text' = [o.store EXCEPT !.now = now, !.n = @ + 1,
                                   !.last = IF ~o.ok THEN "error"
                                            ELSE IF o.restored THEN "restored"
                                            ELSE "absent"]
    /\ UNCHANGED <<disk, queue, pc, chan, shutdownCalled, notified, scan, cur, attempts,
                   cycle, hdr, minted, mem, probe, sp, obs>>

\* the delete handler: delete_structured_text_preview removes the preview
\* file, or returns the error of remove_file; the history is not touched
DeleteText ==
    /\ text.n < MaxSaves
    /\ \E now \in Clock :
         \/ text' = [text EXCEPT !.preview = {}, !.now = now, !.n = @ + 1, !.last = "deleted"]
         \/ text' = [text EXCEPT !.now = now, !.n = @ + 1, !.last = "error"]
    /\ UNCHANGED <<disk, queue, pc, chan, shutdownCalled, notified, scan, cur, attempts,
                   cycle, hdr, minted, mem, probe, sp, obs>>

NextText ==
    \/ \E content \in Contents : SaveText(content)
    \/ \E id \in RestoreIds : RestoreText(id)
    \/ DeleteText

SpecText == InitText /\ [][NextText]_vars

\* The step is a save or a restore that returned Ok and wrote a snapshot
Snapshotted == text' # text /\ text'.last \in {"saved", "restored"}

\* C39 as stated: the history directory never holds more than 20 entries, a
\* save or restore that wrote a snapshot adds one entry, and an entry is
\* removed only when it is older than every entry kept.
C39_HistoryNeverExceedsLimit ==
    /\ [](Cardinality(text.history) <= STRUCTURED_TEXT_HISTORY_LIMIT)
    /\ [][/\ Snapshotted => Cardinality(text'.history \ text.history) = 1
          /\ \A r \in text.history \ text'.history :
                 \A k \in text'.history : SavedAt(r) < SavedAt(k)]_vars

\* C39 amended: whenever the last save or restore returned Ok with a snapshot
\* written, the history directory holds at most 20 entries; such a call adds
\* exactly one entry, named by the time of the call and newer than all
\* others, and leaves min(entries before + 1, 20) entries; a restore that finds
\* no entry changes nothing; no call adds more than one entry; an entry is
\* removed only when 20 or more newer entries are kept, and a call that
\* returned Ok removes only entries older than every entry it keeps. A call
\* that returns an error may have written its entry and pruned nothing or
\* not all, so that the directory holds more than 20 entries until a later
\* call prunes.
C39_HistoryBoundedAfterOk ==
    /\ [](/\ text.last \in {"saved", "restored"}
                => Cardinality(text.history) <= STRUCTURED_TEXT_HISTORY_LIMIT
          /\ \A e \in text.history : SavedAt(e) <= HistoryId(text.now)[1])
    /\ [][LET old == text.history
              new == text'.history
              grown == Cardinality(old) + 1
          IN /\ Snapshotted
                    => /\ \E e \in new \ old :
                             /\ new \ old = {e}
                             /\ e.id = HistoryId(text'.now)
                             /\ \A o \in old : SavedAt(o) < SavedAt(e)
                       /\ Cardinality(new) = IF grown < STRUCTURED_TEXT_HISTORY_LIMIT
                                             THEN grown ELSE STRUCTURED_TEXT_HISTORY_LIMIT
             /\ text'.last = "absent" => new = old
             /\ Cardinality(new \ old) <= 1
             /\ old \ new # {} => Cardinality(new) >= STRUCTURED_TEXT_HISTORY_LIMIT
             /\ \A r \in old \ new :
                    /\ Cardinality({k \in new : SavedAt(k) > SavedAt(r)})
                           >= STRUCTURED_TEXT_HISTORY_LIMIT
                    /\ Snapshotted => \A k \in new : SavedAt(r) < SavedAt(k)]_vars

\* a restore has written the 21st snapshot and the oldest one is gone
C39_Witness ==
    /\ text.last = "restored"
    /\ Cardinality(text.history) = STRUCTURED_TEXT_HISTORY_LIMIT
    /\ \A e \in text.history : SavedAt(e) > 1

====
